---- MODULE Spec2Model ----
(***************************************************************************)
(* Model of lontod's indexing pipeline: the Indexer's write operations on  *)
(* the DEFINIENDA and DATA tables, the Ingester that walks paths, and the  *)
(* Controller / ReIndexingHandler that wrap the ingester in transactions   *)
(* on the single writer connection.                                        *)
(***************************************************************************)
EXTENDS Integers, Sequences, FiniteSets, TLC

(***************************************************************************)
(* Bounds                                                                  *)
(***************************************************************************)
\* number of content changes of the watched files during one behaviour
MaxChanges == 1
\* number of store write failures injected during one behaviour
MaxFaults == 1
\* number of Indexer operations applied in a row in SpecIdx
MaxOps == 4
\* number of RenderContext.fragment calls in SpecFrag
MaxCalls == 3
\* number of items Pool._setup creates in SpecPool
MaxSetups == 3
\* number of calls of the debounced function in SpecDebounce
MaxDebounced == 4
\* number of constructions of the cached class in SpecCached
MaxConstructed == 4
\* largest value an instance's counter is incremented to in SpecCached
MaxCounter == 2

(***************************************************************************)
(* Values                                                                  *)
(***************************************************************************)
\* SQL NULL and TEXT values of the nullable FRAGMENT column
NULL == <<>>
Text(s) == <<s>>

\* URIs are sequences of segments, so that str.startswith and str slicing
\* of ontology.py can be computed
StartsWith(u, p) == Len(u) >= Len(p) /\ SubSeq(u, 1, Len(p)) = p

\* ontology values as built by owl_ontology: (uri, alternate_uris,
\* encodings, definienda); the two dicts are kept in insertion order
O1 ==
    [uri |-> <<"u1">>,
     alternate_uris |-> << <<"v1">> >>,
     encodings |-> << <<"text/turtle", "ttl1">>, <<"text/html", "html1">> >>,
     definienda |-> << << <<"u1", "X">>, "X" >> >>]

O2 ==
    [uri |-> <<"u2">>,
     alternate_uris |-> <<>>,
     encodings |-> << <<"text/turtle", "ttl2">>, <<"text/html", "html2">> >>,
     definienda |-> << << <<"u2", "Y">>, "Y" >>, << <<"ext", "Z">>, "Z" >> >>]

\* an ontology whose IRIs are spelled out: https://h/o/ with the version IRI
\* http://h/o, and an N-Triples encoding next to the other two
O3 ==
    [uri |-> <<"https", "://", "h", "/", "o", "/">>,
     alternate_uris |-> << <<"http", "://", "h", "/", "o">> >>,
     encodings |-> << <<"text/turtle", "ttl3">>, <<"text/plain", "nt3">>,
                      <<"text/html", "html3">> >>,
     definienda |-> << << <<"https", "://", "h", "/", "o", "/", "T">>, "T" >> >>]

\* a parsed graph is named by the ontology owl_ontology builds from it
Graphs == {"O1", "O2", "O3"}
OntologyOf(g) == IF g = "O1" THEN O1 ELSE IF g = "O2" THEN O2 ELSE O3

\* variant: the alternate URIs are yielded as canonical too
UrisAllCanonical(o) ==
    << <<o.uri, TRUE>> >> \o
    [i \in 1..Len(o.alternate_uris) |-> <<o.alternate_uris[i], TRUE>>]

\* Ontology.uris
Uris(o) ==
    << <<o.uri, TRUE>> >> \o
    [i \in 1..Len(o.alternate_uris) |-> <<o.alternate_uris[i], FALSE>>]

\* the rows Ontology.all_definienda yields for one definienda item
DefiniendumRows(o, item) ==
    LET uri == item[1]
        fragment == item[2]
    IN  << <<uri, fragment, TRUE>> >> \o
        (IF StartsWith(uri, o.uri)
            THEN LET relative == SubSeq(uri, Len(o.uri) + 1, Len(uri))
                 IN  [i \in 1..Len(o.alternate_uris) |->
                        <<o.alternate_uris[i] \o relative, fragment, FALSE>>]
            ELSE <<>>)

RECURSIVE AllDefiniendaFrom(_, _)
AllDefiniendaFrom(o, i) ==
    IF i > Len(o.definienda) THEN <<>>
    ELSE DefiniendumRows(o, o.definienda[i]) \o AllDefiniendaFrom(o, i + 1)

\* Ontology.all_definienda
AllDefinienda(o) == AllDefiniendaFrom(o, 1)

(***************************************************************************)
(* Indexer: the tables are sequences of rows in insertion (rowid) order    *)
(***************************************************************************)
EmptyStore == [DEFINIENDA |-> <<>>, DATA |-> <<>>]

\* variant: only the first DELETE of truncate
TruncateDefiniendaOnly(s) == [DEFINIENDA |-> <<>>, DATA |-> s.DATA]

\* Indexer.truncate
Truncate(s) == [DEFINIENDA |-> <<>>, DATA |-> <<>>]

\* variant: both DELETEs without their WHERE clause
RemoveEveryRow(s, identifier) == [DEFINIENDA |-> <<>>, DATA |-> <<>>]

\* variant: only the first DELETE of remove
RemoveDefiniendaOnly(s, identifier) ==
    [DEFINIENDA |-> SelectSeq(s.DEFINIENDA, LAMBDA r : r.ONTOLOGY_ID # identifier),
     DATA |-> s.DATA]

\* Indexer.remove
Remove(s, identifier) ==
    [DEFINIENDA |-> SelectSeq(s.DEFINIENDA, LAMBDA r : r.ONTOLOGY_ID # identifier),
     DATA |-> SelectSeq(s.DATA, LAMBDA r : r.ONTOLOGY_ID # identifier)]

NoKey == <<>>

\* variant: only the primary URI gets a row
UriRowsPrimaryOnly(identifier, o, sort_key) ==
    << [URI |-> o.uri, ONTOLOGY_ID |-> identifier, SORT_KEY |-> sort_key,
        CANONICAL |-> TRUE, FRAGMENT |-> NULL] >>

\* first executemany of Indexer.upsert
UriRows(identifier, o, sort_key) ==
    [i \in 1..Len(Uris(o)) |->
        [URI |-> Uris(o)[i][1], ONTOLOGY_ID |-> identifier,
         SORT_KEY |-> sort_key, CANONICAL |-> Uris(o)[i][2], FRAGMENT |-> NULL]]

\* second executemany of Indexer.upsert
DataRows(identifier, o) ==
    [i \in 1..Len(o.encodings) |->
        [ONTOLOGY_ID |-> identifier, MIME_TYPE |-> o.encodings[i][1],
         DATA |-> o.encodings[i][2]]]

\* third executemany of Indexer.upsert
DefRows(identifier, o, sort_key) ==
    [i \in 1..Len(AllDefinienda(o)) |->
        [URI |-> AllDefinienda(o)[i][1], ONTOLOGY_ID |-> identifier,
         SORT_KEY |-> sort_key, CANONICAL |-> AllDefinienda(o)[i][3],
         FRAGMENT |-> Text(AllDefinienda(o)[i][2])]]

\* variant: insert without removing the old rows
UpsertNoRemove(s, identifier, o, key) ==
    LET sort_key == IF key # NoKey THEN key[1] ELSE identifier
    IN  [DEFINIENDA |-> s.DEFINIENDA \o UriRows(identifier, o, sort_key)
                            \o DefRows(identifier, o, sort_key),
         DATA |-> s.DATA \o DataRows(identifier, o)]

\* Indexer.upsert; key is NoKey when the caller passes no sort_key
Upsert(s, identifier, o, key) ==
    LET s1 == Remove(s, identifier)
        sort_key == IF key # NoKey THEN key[1] ELSE identifier
    IN  [DEFINIENDA |-> s1.DEFINIENDA \o UriRows(identifier, o, sort_key)
                            \o DefRows(identifier, o, sort_key),
         DATA |-> s1.DATA \o DataRows(identifier, o)]

\* Indexer.upsert when its second executemany raises: the rows are removed,
\* the rows of Ontology.uris are inserted, nothing else is
UpsertFailing(s, identifier, o, key) ==
    LET s1 == Remove(s, identifier)
        sort_key == IF key # NoKey THEN key[1] ELSE identifier
    IN  [DEFINIENDA |-> s1.DEFINIENDA \o UriRows(identifier, o, sort_key),
         DATA |-> s1.DATA]

(***************************************************************************)
(* Files                                                                   *)
(***************************************************************************)
\* paths are (parent, stem, suffix); Path.as_posix is the path itself
Dir == [parent |-> "", stem |-> "d", suffix |-> ""]
FileA == [parent |-> "d", stem |-> "a", suffix |-> ".ttl"]
FileB == [parent |-> "d", stem |-> "b", suffix |-> ".ttl"]
FileH == [parent |-> "d", stem |-> ".h", suffix |-> ""]
FileA2 == [parent |-> "", stem |-> "a", suffix |-> ".owl"]
Files == {FileA, FileB, FileH, FileA2}

\* Controller.__paths
Paths == <<Dir, FileA2>>

\* what a file holds: nothing (it does not exist), bytes the RDF parser
\* rejects, a graph without an owl:Ontology subject, or a graph
Content == {"absent", "unparseable", "noontology"} \cup Graphs

\* the contents each file takes in the model
ContentOf(file) ==
    IF file = FileA THEN {"absent", "unparseable", "O1"}
    ELSE IF file = FileB THEN {"absent", "O2"}
    ELSE IF file = FileA2 THEN {"absent", "noontology", "O2"}
    ELSE {"O1"}

\* slug_from_path: Path.stem
slug_from_path(path) == path.stem

\* file.name.startswith(".")
DotStems == {".h"}
IsHidden(file) == file.stem \in DotStems

(***************************************************************************)
(* State                                                                   *)
(***************************************************************************)
Timers == {"t1", "t2"}
Threads == {"main"} \cup Timers
NoThread == "free"

VARIABLES
    fs,          \* content of every file
    changes,     \* number of content changes so far
    faults,      \* number of injected store write failures so far
    conn,        \* the writer connection and the database behind it
    lock,        \* Controller.__lock: its holder or NoThread
    watching,    \* Controller.__observer is started
    timer,       \* the debouncer's timer: "pending", or "none" when none runs
    pc,          \* position of every thread
    indexed,     \* server.run's _index has got past index_and_commit
    idx,         \* Ingester.__call__: index of the next path
    todo,        \* Ingester._ingest_directory: entries still to visit
    successful,  \* Ingester.__call__: successful
    failed,      \* Ingester.__call__: failed
    failures,    \* ReIndexingHandler.__reindex_impl: failures
    ret,         \* how the ingester call ended: "none", "returned", "raised"
    outcome,     \* how the operation ended: "none", "commit", "rollback", "raised"
    snap,        \* committed database at the operation's BEGIN
    processed,   \* the paths the ingester handled, with what they held then
    ops,         \* SpecIdx: number of Indexer operations applied
    lastOp       \* SpecIdx: the last Indexer operation

VARIABLES
    public_domain, \* SpecWeb: Handler.__public_domain, NULL when not configured
    req,           \* SpecWeb: the HTTP request being answered
    resp,          \* SpecWeb: the response to it
    fids,          \* SpecFrag: RenderContext.__fids as (group, iri, fid) triples
    fid_values,    \* SpecFrag: RenderContext.__fid_values
    calls,         \* SpecFrag: the fragment calls made and what they returned
    lang_g,        \* SpecLang: the graph g restrict_languages works on
    lang_g0,       \* SpecLang: the graph restrict_languages was called with
    preferences,   \* SpecLang: the preferences it was called with
    restricted,    \* SpecLang: restrict_languages has returned
    sections,      \* SpecRender: the sections of the extracted ontology
    lang_g1,       \* SpecLang: the graph a second restrict_languages call started from
    pool,          \* SpecPool: the Pool of Query objects
    users,         \* SpecPool: what each request thread does with the pool
    deb,           \* SpecDebounce: the timers of a debounced function and its invocations
    pkl            \* SpecCached: the objects, the cache and the constructing threads of a PickleCachedMeta class

\* the variables of the specifications other than Spec and SpecIdx
aux == <<public_domain, req, resp, fids, fid_values, calls,
        lang_g, lang_g0, preferences, restricted, sections,
        lang_g1,
        pool,
        users,
        deb,
        pkl>>

vars == <<fs, changes, faults, conn, lock, watching, timer, pc, indexed, idx,
          todo, successful, failed, failures, ret, outcome, snap, processed,
          ops, lastOp, aux>>

ctl == <<lock, watching, timer, pc, indexed, idx, todo, successful, failed,
         failures, ret, outcome, snap, processed>>

(***************************************************************************)
(* sqlite3 connection in Python's legacy transaction control               *)
(***************************************************************************)
\* Connection.execute("BEGIN;") on a connection without open transaction
ConnBegin(c) == [c EXCEPT !.in_txn = TRUE]

\* Connection.commit
ConnCommit(c) == [c EXCEPT !.in_txn = FALSE, !.committed = c.working]

\* Connection.rollback
ConnRollback(c) == [c EXCEPT !.in_txn = FALSE, !.working = c.committed]

\* Cursor.execute / executemany of an INSERT or DELETE: a transaction is
\* opened implicitly when none is open
ConnWrite(c, store) == [c EXCEPT !.in_txn = TRUE, !.working = store]

\* Indexer.initialize_schema: Cursor.executescript commits a pending
\* transaction, then runs the idempotent DDL in autocommit mode
InitializeSchema(c) == [ConnCommit(c) EXCEPT !.schema = TRUE]

NoOp == [kind |-> "none", id |-> "", g |-> "", key |-> NoKey,
         pre |-> EmptyStore, again |-> FALSE]

\* no request has been made
NoRequest == [route |-> "none"]
NoResponse == [status |-> 0, media_type |-> "", location |-> NULL,
               disposition |-> NULL, stream |-> "", content |-> NULL,
               escaped |-> FALSE]

Init ==
    /\ fs \in {f \in [Files -> Content] : \A file \in Files : f[file] \in ContentOf(file)}
    /\ changes = 0
    /\ faults = 0
    /\ conn = [schema |-> FALSE, in_txn |-> FALSE,
               committed |-> EmptyStore, working |-> EmptyStore]
    /\ lock = NoThread
    /\ watching = FALSE
    /\ timer = "none"
    /\ pc = [t \in Threads |-> "idle"]
    /\ indexed = FALSE
    /\ idx = [t \in Threads |-> 1]
    /\ todo = [t \in Threads |-> {}]
    /\ successful = [t \in Threads |-> <<>>]
    /\ failed = [t \in Threads |-> <<>>]
    /\ failures = [t \in Threads |-> <<>>]
    /\ ret = [t \in Threads |-> "none"]
    /\ outcome = [t \in Threads |-> "none"]
    /\ snap = [t \in Threads |-> EmptyStore]
    /\ processed = [t \in Threads |-> <<>>]
    /\ ops = 0
    /\ lastOp = NoOp
    /\ public_domain = NULL
    /\ req = NoRequest
    /\ resp = NoResponse
    /\ fids = {}
    /\ fid_values = {}
    /\ calls = <<>>
    /\ lang_g = {}
    /\ lang_g0 = {}
    /\ preferences = NULL
    /\ restricted = FALSE
    /\ sections = <<>>
    /\ lang_g1 = NULL
    /\ pool = [q |-> <<>>]
    /\ users = <<>>
    /\ deb = [timers |-> <<>>]
    /\ pkl = [heap |-> <<>>]

(***************************************************************************)
(* Controller.index_and_commit (thread "main") and                         *)
(* ReIndexingHandler.reindex_now (the debouncer's timer threads)           *)
(***************************************************************************)
\* the operation a thread runs
OpOf(t) == IF t = "main" THEN "index" ELSE "reindex"

\* the debounced call passes no arguments: reindex_now's defaults
ReindexArgs == [initialize |-> FALSE, force |-> FALSE]

\* arguments of the ingester call: index_and_commit passes initialize=True,
\* truncate=False; __reindex_impl passes initialize, truncate=True
IngesterArgs(t) ==
    IF OpOf(t) = "index"
        THEN [initialize |-> TRUE, truncate |-> FALSE]
        ELSE [initialize |-> ReindexArgs.initialize, truncate |-> TRUE]

\* variant: every caller brings a lock of its own
CanAcquireOwnLock(t) == TRUE

\* "with self.__lock" is entered when the lock is free
CanAcquire(t) == lock = NoThread

\* variant: a single failure is tolerated
ReindexRaisesOffByOne(fails) == Len(fails) > 1

\* __reindex_impl raises when the ingester reported failures
ReindexRaises(fails) == Len(fails) > 0

\* reindex_now: "if ok or force" decides between commit and rollback
ReindexCommits(ok, force) == ok \/ force

\* variant: the initial run treats failures as the re-index does
IndexCommitsIfClean(fails) == Len(fails) = 0

\* index_and_commit commits whatever the ingester returned
IndexCommits(fails) == TRUE

\* variant: a graph without owl:Ontology is not rejected
IngestFileSkipsParseOnly(content) == content \in {"absent", "unparseable"}

\* Ingester._ingest_file returns None without touching the store
IngestFileSkips(content) == content \in {"absent", "unparseable", "noontology"}

\* Ingester.__call__, prologue: initialize_schema, then truncate
Prologue(c, a) ==
    LET c1 == IF a.initialize THEN InitializeSchema(c) ELSE c
    IN  IF a.truncate THEN ConnWrite(c1, Truncate(c1.working)) ELSE c1

\* Path.is_file / Path.is_dir
IsFile(path) == path \in Files /\ fs[path] # "absent"
IsDir(path) == path = Dir

\* Path.iterdir
Listing(directory) == {f \in Files : f.parent = directory.stem /\ fs[f] # "absent"}

Locals == <<idx, todo, successful, failed, failures, ret, outcome, snap, processed>>

\* Controller.index_and_commit is called and enters "with self.__lock"
IndexAndCommit ==
    /\ pc["main"] = "idle"
    /\ CanAcquire("main")
    /\ lock' = "main"
    /\ pc' = [pc EXCEPT !["main"] = "begin"]
    /\ UNCHANGED <<fs, changes, faults, conn, watching, timer, indexed,
                   Locals, ops, lastOp, aux>>

\* Controller.start_watching, called by _index after index_and_commit
StartWatching ==
    /\ pc["main"] = "idle"
    /\ indexed
    /\ ~watching
    /\ watching' = TRUE
    /\ UNCHANGED <<fs, changes, faults, conn, lock, timer, pc, indexed,
                   Locals, ops, lastOp, aux>>

\* ReIndexingHandler.on_any_event: the debounced call cancels the pending
\* timer and starts a new one
OnAnyEvent ==
    /\ watching
    /\ timer' = "pending"
    /\ UNCHANGED <<fs, changes, faults, conn, lock, watching, pc, indexed,
                   Locals, ops, lastOp, aux>>

\* the timer expires and calls reindex_now on its own thread
TimerFire(t) ==
    /\ timer = "pending"
    /\ pc[t] = "idle"
    /\ timer' = "none"
    /\ pc' = [pc EXCEPT ![t] = "lock"]
    /\ UNCHANGED <<fs, changes, faults, conn, lock, watching, indexed,
                   Locals, ops, lastOp, aux>>

\* reindex_now enters "with self.__lock"
Acquire(t) ==
    /\ pc[t] = "lock"
    /\ CanAcquire(t)
    /\ lock' = t
    /\ pc' = [pc EXCEPT ![t] = "begin"]
    /\ UNCHANGED <<fs, changes, faults, conn, watching, timer, indexed,
                   Locals, ops, lastOp, aux>>

\* conn.execute("BEGIN;"): raises inside an open transaction, and the
\* exception leaves the with block
Begin(t) ==
    /\ pc[t] = "begin"
    /\ IF conn.in_txn
          THEN /\ outcome' = [outcome EXCEPT ![t] = "raised"]
               /\ pc' = [pc EXCEPT ![t] = "unlock"]
               /\ UNCHANGED <<conn, snap>>
          ELSE /\ conn' = ConnBegin(conn)
               /\ snap' = [snap EXCEPT ![t] = conn.committed]
               /\ pc' = [pc EXCEPT ![t] = "prologue"]
               /\ UNCHANGED outcome
    /\ UNCHANGED <<fs, changes, faults, lock, watching, timer, indexed, idx,
                   todo, successful, failed, failures, ret, processed,
                   ops, lastOp, aux>>

\* Ingester.__call__ up to its loop over the paths
IngesterStart(t) ==
    /\ pc[t] = "prologue"
    /\ conn' = Prologue(conn, IngesterArgs(t))
    /\ pc' = [pc EXCEPT ![t] = "paths"]
    /\ UNCHANGED <<fs, changes, faults, lock, watching, timer, indexed,
                   Locals, ops, lastOp, aux>>

\* an exception leaves the ingester: index_and_commit lets it leave the with
\* block, reindex_now catches it (ok = False)
Raised(t) ==
    /\ ret' = [ret EXCEPT ![t] = "raised"]
    /\ IF OpOf(t) = "index"
          THEN /\ outcome' = [outcome EXCEPT ![t] = "raised"]
               /\ pc' = [pc EXCEPT ![t] = "unlock"]
          ELSE /\ pc' = [pc EXCEPT ![t] = "finish"]
               /\ UNCHANGED outcome

\* Ingester._ingest_file on one file; rest is the caller's bookkeeping when
\* no exception is raised
IngestFile(t, file) ==
    LET slug == slug_from_path(file)
    IN  \/ /\ IngestFileSkips(fs[file])
           /\ failed' = [failed EXCEPT ![t] = Append(@, file)]
           /\ processed' = [processed EXCEPT ![t] =
                               Append(@, [path |-> file, content |-> fs[file]])]
           /\ UNCHANGED <<conn, faults, successful, ret, outcome, pc>>
        \/ /\ ~IngestFileSkips(fs[file])
           /\ conn' = ConnWrite(conn, Upsert(conn.working, slug,
                                            OntologyOf(fs[file]), NoKey))
           /\ successful' = [successful EXCEPT ![t] = Append(@, slug)]
           /\ processed' = [processed EXCEPT ![t] =
                               Append(@, [path |-> file, content |-> fs[file]])]
           /\ UNCHANGED <<faults, failed, ret, outcome, pc>>
        \/ /\ ~IngestFileSkips(fs[file])
           /\ faults < MaxFaults
           /\ faults' = faults + 1
           /\ conn' = ConnWrite(conn, UpsertFailing(conn.working, slug,
                                                   OntologyOf(fs[file]), NoKey))
           /\ Raised(t)
           /\ UNCHANGED <<successful, failed, processed>>

\* Ingester.__call__ / Ingester.ingest: a path that is a file
IngestPathFile(t) ==
    /\ pc[t] = "paths"
    /\ idx[t] <= Len(Paths)
    /\ IsFile(Paths[idx[t]])
    /\ IngestFile(t, Paths[idx[t]])
    /\ idx' = [idx EXCEPT ![t] = IF ret'[t] = "raised" THEN @ ELSE @ + 1]
    /\ UNCHANGED <<fs, changes, lock, watching, timer, indexed, todo,
                   failures, snap, ops, lastOp, aux>>

\* Ingester.ingest: a path that is a directory is listed
IngestPathDir(t) ==
    /\ pc[t] = "paths"
    /\ idx[t] <= Len(Paths)
    /\ ~IsFile(Paths[idx[t]])
    /\ IsDir(Paths[idx[t]])
    /\ todo' = [todo EXCEPT ![t] = Listing(Paths[idx[t]])]
    /\ pc' = [pc EXCEPT ![t] = "dir"]
    /\ UNCHANGED <<fs, changes, faults, conn, lock, watching, timer, indexed,
                   idx, successful, failed, failures, ret, outcome, snap,
                   processed, ops, lastOp, aux>>

\* Ingester.ingest raises AssertionError for a path that is neither;
\* Ingester.__call__ records the path as failed
IngestPathNeither(t) ==
    /\ pc[t] = "paths"
    /\ idx[t] <= Len(Paths)
    /\ ~IsFile(Paths[idx[t]])
    /\ ~IsDir(Paths[idx[t]])
    /\ failed' = [failed EXCEPT ![t] = Append(@, Paths[idx[t]])]
    /\ processed' = [processed EXCEPT ![t] =
                        Append(@, [path |-> Paths[idx[t]], content |-> "absent"])]
    /\ idx' = [idx EXCEPT ![t] = @ + 1]
    /\ UNCHANGED <<fs, changes, faults, conn, lock, watching, timer, pc,
                   indexed, todo, successful, failures, ret, outcome, snap,
                   ops, lastOp, aux>>

\* Ingester._ingest_directory: one entry of the listing, in any order; the
\* two lists of the directory are appended to those of __call__ directly
IngestDirEntry(t) ==
    /\ pc[t] = "dir"
    /\ \E file \in todo[t] :
        /\ todo' = [todo EXCEPT ![t] = @ \ {file}]
        /\ IF IsHidden(file)
              THEN UNCHANGED <<conn, faults, successful, failed, processed,
                               ret, outcome, pc>>
              ELSE IngestFile(t, file)
    /\ UNCHANGED <<fs, changes, lock, watching, timer, indexed, idx,
                   failures, snap, ops, lastOp, aux>>

\* Ingester._ingest_directory returns
IngestDirDone(t) ==
    /\ pc[t] = "dir"
    /\ todo[t] = {}
    /\ idx' = [idx EXCEPT ![t] = @ + 1]
    /\ pc' = [pc EXCEPT ![t] = "paths"]
    /\ UNCHANGED <<fs, changes, faults, conn, lock, watching, timer, indexed,
                   todo, successful, failed, failures, ret, outcome, snap,
                   processed, ops, lastOp, aux>>

\* Ingester.__call__ returns (successful, failed)
IngesterReturn(t) ==
    /\ pc[t] = "paths"
    /\ idx[t] > Len(Paths)
    /\ ret' = [ret EXCEPT ![t] = "returned"]
    /\ failures' = [failures EXCEPT ![t] =
                       IF OpOf(t) = "reindex" THEN failed[t] ELSE @]
    /\ pc' = [pc EXCEPT ![t] = "finish"]
    /\ UNCHANGED <<fs, changes, faults, conn, lock, watching, timer, indexed,
                   idx, todo, successful, failed, outcome, snap, processed,
                   ops, lastOp, aux>>

\* the end of the transaction: conn.commit() in index_and_commit; commit or
\* rollback in reindex_now
Finish(t) ==
    /\ pc[t] = "finish"
    /\ LET ok == ret[t] = "returned" /\ ~ReindexRaises(failures[t])
           commits == IF OpOf(t) = "index" THEN IndexCommits(failed[t])
                      ELSE ReindexCommits(ok, ReindexArgs.force)
       IN  /\ conn' = IF commits THEN ConnCommit(conn) ELSE ConnRollback(conn)
           /\ outcome' = [outcome EXCEPT ![t] =
                             IF commits THEN "commit" ELSE "rollback"]
    /\ pc' = [pc EXCEPT ![t] = "unlock"]
    /\ UNCHANGED <<fs, changes, faults, lock, watching, timer, indexed, idx,
                   todo, successful, failed, failures, ret, snap, processed,
                   ops, lastOp, aux>>

\* the with block is left and the operation ends
Unlock(t) ==
    /\ pc[t] = "unlock"
    /\ lock' = IF lock = t THEN NoThread ELSE lock
    /\ indexed' = (indexed \/ (t = "main" /\ outcome[t] = "commit"))
    /\ pc' = [pc EXCEPT ![t] = "idle"]
    /\ idx' = [idx EXCEPT ![t] = 1]
    /\ todo' = [todo EXCEPT ![t] = {}]
    /\ successful' = [successful EXCEPT ![t] = <<>>]
    /\ failed' = [failed EXCEPT ![t] = <<>>]
    /\ failures' = [failures EXCEPT ![t] = <<>>]
    /\ ret' = [ret EXCEPT ![t] = "none"]
    /\ outcome' = [outcome EXCEPT ![t] = "none"]
    /\ snap' = [snap EXCEPT ![t] = EmptyStore]
    /\ processed' = [processed EXCEPT ![t] = <<>>]
    /\ UNCHANGED <<fs, changes, faults, conn, watching, timer, ops,
                   lastOp, aux>>

(***************************************************************************)
(* Environment: the watched files and the readers                          *)
(***************************************************************************)
\* a file is created, deleted or rewritten
FsChange ==
    /\ changes < MaxChanges
    /\ \E file \in Files, content \in Content :
        /\ content \in ContentOf(file)
        /\ content # fs[file]
        /\ fs' = [fs EXCEPT ![file] = content]
    /\ changes' = changes + 1
    /\ UNCHANGED <<faults, conn, ctl, ops, lastOp, aux>>

\* the re-index between its truncate and its commit or rollback
InFlight(t) == OpOf(t) = "reindex" /\ pc[t] \in {"paths", "dir", "finish"}

\* variant: the readers share the writer's connection object
QueryViewShared == conn.working

\* what a Query statement on a reader connection sees: the reader has its
\* own connection (server_conn.connect()), so the committed database
QueryView == conn.committed

Next ==
    \/ IndexAndCommit
    \/ StartWatching
    \/ OnAnyEvent
    \/ \E t \in Timers : TimerFire(t)
    \/ \E t \in Timers : Acquire(t)
    \/ \E t \in Threads : Begin(t)
    \/ \E t \in Threads : IngesterStart(t)
    \/ \E t \in Threads : IngestPathFile(t)
    \/ \E t \in Threads : IngestPathDir(t)
    \/ \E t \in Threads : IngestPathNeither(t)
    \/ \E t \in Threads : IngestDirEntry(t)
    \/ \E t \in Threads : IngestDirDone(t)
    \/ \E t \in Threads : IngesterReturn(t)
    \/ \E t \in Threads : Finish(t)
    \/ \E t \in Threads : Unlock(t)
    \/ FsChange

Spec == Init /\ [][Next]_vars

\* the steps of the operation a thread is running, after it got the lock
Run(t) ==
    \/ Begin(t)
    \/ IngesterStart(t)
    \/ IngestPathFile(t)
    \/ IngestPathDir(t)
    \/ IngestPathNeither(t)
    \/ IngestDirEntry(t)
    \/ IngestDirDone(t)
    \/ IngesterReturn(t)
    \/ Finish(t)
    \/ Unlock(t)

\* threads are scheduled fairly: a running operation goes on (the ingester
\* terminates), the debouncer's timer expires once no event resets it, and a
\* thread blocked in "with self.__lock" gets the lock when it is released
\* again and again. Events, file changes and calls of the controller's
\* methods are left to the environment.
Fairness ==
    /\ \A t \in Threads : WF_vars(Run(t))
    /\ WF_vars(\E t \in Timers : TimerFire(t))
    /\ \A t \in Timers : SF_vars(Acquire(t))

\* the watched paths hold one ontology and a hidden file in the directory
\* and one ontology beside it
InitLive ==
    /\ Init
    /\ fs = [file \in Files |-> IF file \in {FileA, FileH} THEN "O1"
                                ELSE IF file = FileA2 THEN "O2" ELSE "absent"]

SpecLive == InitLive /\ [][Next]_vars /\ Fairness

(***************************************************************************)
(* SpecIdx: the Indexer's operations applied directly, in any order        *)
(***************************************************************************)
Ids == {"a", "b"}
Keys == {NoKey, <<"k">>}

InitIdx ==
    /\ Init
    /\ fs = [file \in Files |-> IF file = FileH THEN "O1" ELSE "absent"]

IdxFrame == <<fs, changes, ctl, aux>>

\* Indexer.initialize_schema
IdxInitializeSchema ==
    /\ ops < MaxOps
    /\ ops' = ops + 1
    /\ conn' = InitializeSchema(conn)
    /\ lastOp' = [NoOp EXCEPT !.kind = "initialize_schema", !.pre = conn.working]
    /\ UNCHANGED <<IdxFrame, faults>>

\* Indexer.truncate
IdxTruncate ==
    /\ ops < MaxOps
    /\ conn.schema
    /\ ops' = ops + 1
    /\ conn' = ConnWrite(conn, Truncate(conn.working))
    /\ lastOp' = [NoOp EXCEPT !.kind = "truncate", !.pre = conn.working]
    /\ UNCHANGED <<IdxFrame, faults>>

\* Indexer.remove
IdxRemove(identifier) ==
    /\ ops < MaxOps
    /\ conn.schema
    /\ ops' = ops + 1
    /\ conn' = ConnWrite(conn, Remove(conn.working, identifier))
    /\ lastOp' = [NoOp EXCEPT !.kind = "remove", !.id = identifier,
                              !.pre = conn.working]
    /\ UNCHANGED <<IdxFrame, faults>>

\* Indexer.upsert
IdxUpsert(identifier, g, key) ==
    /\ ops < MaxOps
    /\ conn.schema
    /\ ops' = ops + 1
    /\ conn' = ConnWrite(conn, Upsert(conn.working, identifier, OntologyOf(g), key))
    /\ lastOp' = [kind |-> "upsert", id |-> identifier, g |-> g, key |-> key,
                  pre |-> conn.working,
                  again |-> /\ lastOp.kind = "upsert"
                            /\ lastOp.id = identifier
                            /\ lastOp.g = g
                            /\ lastOp.key = key]
    /\ UNCHANGED <<IdxFrame, faults>>

\* Indexer.upsert raising in its second executemany
IdxUpsertRaises(identifier, g, key) ==
    /\ ops < MaxOps
    /\ conn.schema
    /\ faults < MaxFaults
    /\ faults' = faults + 1
    /\ ops' = ops + 1
    /\ conn' = ConnWrite(conn, UpsertFailing(conn.working, identifier,
                                            OntologyOf(g), key))
    /\ lastOp' = [NoOp EXCEPT !.kind = "upsert_raised", !.id = identifier,
                              !.g = g, !.key = key, !.pre = conn.working]
    /\ UNCHANGED IdxFrame

NextIdx ==
    \/ IdxInitializeSchema
    \/ IdxTruncate
    \/ \E identifier \in Ids : IdxRemove(identifier)
    \/ \E identifier \in Ids, g \in Graphs, key \in Keys : IdxUpsert(identifier, g, key)
    \/ \E identifier \in Ids, g \in Graphs, key \in Keys : IdxUpsertRaises(identifier, g, key)

SpecIdx == InitIdx /\ [][NextIdx]_vars

(***************************************************************************)
(* Properties                                                              *)
(***************************************************************************)
Range(seq) == {seq[i] : i \in 1..Len(seq)}
IdsOf(table) == {table[i].ONTOLOGY_ID : i \in 1..Len(table)}
RowsOf(s, identifier) ==
    [DEFINIENDA |-> SelectSeq(s.DEFINIENDA, LAMBDA r : r.ONTOLOGY_ID = identifier),
     DATA |-> SelectSeq(s.DATA, LAMBDA r : r.ONTOLOGY_ID = identifier)]

\* the thread is between its BEGIN and its COMMIT / ROLLBACK
InTxn(t) == pc[t] \in {"prologue", "paths", "dir", "finish"}

\* C1: a watcher-triggered re-index (force = False) whose ingester reported
\* a failed path or file ends rolled back: the committed DATA and DEFINIENDA
\* are those committed before its BEGIN, and nothing of the attempt,
\* the truncate included, is visible.
C1_FailedReindexRollsBack ==
    \A t \in Timers :
        (pc[t] = "unlock" /\ ~ReindexArgs.force /\ Len(failed[t]) > 0)
            => /\ outcome[t] = "rollback"
               /\ conn.committed = snap[t]
               /\ QueryView = snap[t]
               /\ conn.working = snap[t]
               /\ ~conn.in_txn

C1_Witness ==
    \E t \in Timers :
        /\ pc[t] = "unlock"
        /\ ret[t] = "returned"
        /\ Len(failed[t]) > 0
        /\ Len(successful[t]) > 0
        /\ outcome[t] = "rollback"
        /\ snap[t] # EmptyStore

\* C2: at most one of index_and_commit and the reindex_now calls is between
\* its BEGIN and its COMMIT / ROLLBACK, and the one that is holds the
\* controller's lock.
C2_SingleWriter ==
    /\ Cardinality({t \in Threads : InTxn(t)}) <= 1
    /\ \A t \in Threads : InTxn(t) => lock = t

C2_Witness ==
    /\ InTxn("main")
    /\ conn.working # conn.committed
    /\ \A u \in Timers : pc[u] = "lock"

\* C3: while a watcher-triggered re-index is in flight (after its truncate,
\* before its commit or rollback) a Query read sees the complete index
\* committed before the re-index, never the emptied or partly rebuilt one;
\* once the re-index has committed, the read sees the index it built.
C3_ReadersIsolated ==
    \A t \in Timers :
        /\ InFlight(t) => QueryView = snap[t]
        /\ (pc[t] = "unlock" /\ outcome[t] = "commit") => QueryView = conn.working

C3_Witness ==
    \E t \in Timers :
        /\ pc[t] = "dir"
        /\ Len(successful[t]) > 0
        /\ conn.working # conn.committed
        /\ QueryView = snap[t]
        /\ QueryView # EmptyStore

\* C4: (as claimed) every controller write operation ends with its
\* transaction committed or rolled back, so that no transaction is open
\* when the lock is released and a later BEGIN can execute.
C4_NoTransactionLeftOpen ==
    \A t \in Threads : pc[t] \in {"unlock", "begin"} => ~conn.in_txn

\* the last entry of the handled paths that held a graph and maps to slug
LastGraph(t, slug) ==
    LET hits == {i \in 1..Len(processed[t]) :
                    /\ slug_from_path(processed[t][i].path) = slug
                    /\ processed[t][i].content \in Graphs}
        last == CHOOSE i \in hits : \A j \in hits : j <= i
    IN  processed[t][last].content

\* C5: when the ingester returns to index_and_commit, with failed paths or
\* without, the run commits, and the committed store holds for every slug
\* ingested successfully the rows of the ontology upserted under it.
C5_InitialRunCommits ==
    (pc["main"] = "unlock" /\ ret["main"] = "returned")
        => /\ outcome["main"] = "commit"
           /\ ~conn.in_txn
           /\ \A slug \in Range(successful["main"]) :
                RowsOf(conn.committed, slug) =
                    RowsOf(Upsert(EmptyStore, slug,
                                  OntologyOf(LastGraph("main", slug)), NoKey), slug)

C5_Witness ==
    /\ pc["main"] = "unlock"
    /\ outcome["main"] = "commit"
    /\ Len(failed["main"]) > 0
    /\ Len(successful["main"]) > 0
    /\ conn.committed # EmptyStore

\* the slugs of the handled paths that held a graph, in order
RECURSIVE SlugsOfGraphs(_)
SlugsOfGraphs(p) ==
    IF p = <<>> THEN <<>>
    ELSE (IF Head(p).content \in Graphs
            THEN <<slug_from_path(Head(p).path)>> ELSE <<>>)
         \o SlugsOfGraphs(Tail(p))

\* the handled paths that held no graph, in order
RECURSIVE PathsOfOthers(_)
PathsOfOthers(p) ==
    IF p = <<>> THEN <<>>
    ELSE (IF Head(p).content \in Graphs THEN <<>> ELSE <<Head(p).path>>)
         \o PathsOfOthers(Tail(p))

\* C6: when the ingester returns, every file it handled is in exactly one
\* of the two lists (its slug in successful when it held an ontology, its
\* path in failed otherwise), a failure did not stop the loop (the last
\* path was handled), and every slug in successful has its rows in the store.
C6_PerFileIsolation ==
    \A t \in Threads :
        ret[t] = "returned"
            => /\ successful[t] = SlugsOfGraphs(processed[t])
               /\ failed[t] = PathsOfOthers(processed[t])
               /\ \E i \in 1..Len(processed[t]) :
                    processed[t][i].path = Paths[Len(Paths)]
               /\ (pc[t] = "finish" =>
                    \A slug \in Range(successful[t]) :
                        RowsOf(conn.working, slug) =
                            RowsOf(Upsert(EmptyStore, slug,
                                          OntologyOf(LastGraph(t, slug)), NoKey), slug))

C6_Witness ==
    \E t \in Threads :
        /\ ret[t] = "returned"
        /\ pc[t] = "finish"
        /\ \E i, j \in 1..Len(processed[t]) :
            /\ i < j
            /\ processed[t][i].content \in {"unparseable", "noontology"}
            /\ processed[t][j].content \in Graphs

\* C7: after a watcher-triggered re-index that commits, the ONTOLOGY_IDs in
\* DEFINIENDA and in DATA are exactly the slugs ingested in that run.
C7_WipeAndRebuild ==
    \A t \in Timers :
        (pc[t] = "unlock" /\ outcome[t] = "commit")
            => /\ IdsOf(conn.committed.DEFINIENDA) = Range(successful[t])
               /\ IdsOf(conn.committed.DATA) = Range(successful[t])

C7_Witness ==
    \E t \in Timers :
        /\ pc[t] = "unlock"
        /\ outcome[t] = "commit"
        /\ Len(successful[t]) > 0
        /\ \E identifier \in IdsOf(snap[t].DEFINIENDA) :
            identifier \notin IdsOf(conn.committed.DEFINIENDA)

\* C8: an upsert(I, O) that directly follows an upsert(I, O) leaves both
\* tables as the first one left them: same rows, same blob bytes.
C8_IdempotentUpsert ==
    (lastOp.kind = "upsert" /\ lastOp.again) => conn.working = lastOp.pre

C8_Witness ==
    /\ lastOp.kind = "upsert"
    /\ lastOp.again
    /\ IdsOf(conn.working.DATA) = Ids

\* the rows of the ontology's primary URI
PrimaryRows(s, identifier) ==
    {i \in 1..Len(s.DEFINIENDA) :
        /\ s.DEFINIENDA[i].ONTOLOGY_ID = identifier
        /\ s.DEFINIENDA[i].FRAGMENT = NULL
        /\ s.DEFINIENDA[i].CANONICAL}

\* C9: after any sequence of Indexer operations every ONTOLOGY_ID with a
\* row in the store has exactly one DEFINIENDA row with FRAGMENT NULL and
\* CANONICAL true.
C9_PrimaryUri ==
    \A identifier \in IdsOf(conn.working.DEFINIENDA) \cup IdsOf(conn.working.DATA) :
        Cardinality(PrimaryRows(conn.working, identifier)) = 1

C9_Witness ==
    /\ IdsOf(conn.working.DEFINIENDA) = Ids
    /\ \E i \in 1..Len(conn.working.DEFINIENDA) :
        /\ conn.working.DEFINIENDA[i].FRAGMENT = NULL
        /\ ~conn.working.DEFINIENDA[i].CANONICAL

\* C10: after any sequence of Indexer operations DATA holds at most one row
\* per (ONTOLOGY_ID, MIME_TYPE).
C10_BlobKeyUnique ==
    \A i, j \in 1..Len(conn.working.DATA) :
        (/\ conn.working.DATA[i].ONTOLOGY_ID = conn.working.DATA[j].ONTOLOGY_ID
         /\ conn.working.DATA[i].MIME_TYPE = conn.working.DATA[j].MIME_TYPE)
            => i = j

C10_Witness ==
    /\ lastOp.kind = "upsert"
    /\ \E i \in 1..Len(lastOp.pre.DATA) :
        /\ lastOp.pre.DATA[i].ONTOLOGY_ID = lastOp.id
        /\ lastOp.g # "O1"
        /\ lastOp.pre.DATA[i].DATA = "ttl1"
    /\ Len(conn.working.DATA) > 2

(***************************************************************************)
(* Query: the read operations, applied to the tables a connection sees     *)
(***************************************************************************)
\* the MIME types of the model in the order of SQLite's BINARY collation
MimeTypes == <<"text/html", "text/plain", "text/turtle">>

\* as_utf8: the DATA column holds a BLOB (_is_row_blob), returned as it is
as_utf8(value) == value

\* variant: the MIME type is left out of the WHERE clause
GetDataAnyType(s, identifier, mime_type) ==
    LET rows == SelectSeq(s.DATA, LAMBDA r : r.ONTOLOGY_ID = identifier)
    IN  IF rows = <<>> THEN NULL ELSE Text(as_utf8(rows[1].DATA))

\* Query.get_data: NULL is None, Text(b) the bytes b
GetData(s, identifier, mime_type) ==
    LET rows == SelectSeq(s.DATA, LAMBDA r : /\ r.ONTOLOGY_ID = identifier
                                             /\ r.MIME_TYPE = mime_type)
    IN  IF rows = <<>> THEN NULL ELSE Text(as_utf8(rows[1].DATA))

\* Query.get_mime_types: SELECT DISTINCT ... ORDER BY DATA.MIME_TYPE
GetMimeTypes(s, identifier) ==
    SelectSeq(MimeTypes, LAMBDA m :
        \E i \in 1..Len(s.DATA) : /\ s.DATA[i].ONTOLOGY_ID = identifier
                                  /\ s.DATA[i].MIME_TYPE = m)

\* the strings used as SORT_KEY, in the order of SQLite's BINARY collation
TextOrder == <<"a", "b", "b c", "k">>
TextRank(x) == CHOOSE i \in 1..Len(TextOrder) : TextOrder[i] = x

\* variant: no ORDER BY clause, the rows come in rowid order
RowOrderedByRowid(r, q) == TRUE

\* ORDER BY DEFINIENDA.CANONICAL DESC, DEFINIENDA.SORT_KEY DESC: r may come
\* before q
RowOrdered(r, q) ==
    \/ r.CANONICAL /\ ~q.CANONICAL
    \/ r.CANONICAL = q.CANONICAL /\ TextRank(r.SORT_KEY) >= TextRank(q.SORT_KEY)

\* the Definiendum get_definienda builds from a row
DefiniendumOf(r) ==
    [uri |-> r.URI, ontology_identifier |-> r.ONTOLOGY_ID,
     canonical |-> (r.CANONICAL = TRUE), fragment |-> r.FRAGMENT]

\* Query.get_definienda: the sequences of results the statement can yield;
\* rows that compare equal under the ORDER BY come in any order
GetDefinienda(s, uris) ==
    LET hits == {i \in 1..Len(s.DEFINIENDA) : s.DEFINIENDA[i].URI \in Range(uris)}
        n == Cardinality(hits)
        orders == {f \in [1..n -> hits] :
                    /\ \A i, j \in 1..n : i # j => f[i] # f[j]
                    /\ \A i, j \in 1..n :
                        i < j => RowOrdered(s.DEFINIENDA[f[i]], s.DEFINIENDA[f[j]])}
    IN  IF Len(uris) = 0 THEN {<<>>}
        ELSE {[i \in 1..n |-> DefiniendumOf(s.DEFINIENDA[f[i]])] : f \in orders}

\* ontology.encodings[m]
EncodingOf(o, m) ==
    LET i == CHOOSE i \in 1..Len(o.encodings) : o.encodings[i][1] = m
    IN  o.encodings[i][2]

\* C11: after a run that commits, for every slug it ingested and every MIME
\* type get_mime_types lists for it, get_data on a reader connection returns
\* bytes (not None) equal to encodings[m] of the ontology last upserted
\* under that slug.
C11_RoundTrip ==
    \A t \in Threads :
        (pc[t] = "unlock" /\ outcome[t] = "commit")
            => \A slug \in Range(successful[t]) :
                /\ GetMimeTypes(QueryView, slug) # <<>>
                /\ \A m \in Range(GetMimeTypes(QueryView, slug)) :
                    LET o == OntologyOf(LastGraph(t, slug))
                    IN  /\ GetData(QueryView, slug, m) # NULL
                        /\ GetData(QueryView, slug, m) = Text(EncodingOf(o, m))

C11_Witness ==
    \E t \in Threads :
        /\ pc[t] = "unlock"
        /\ outcome[t] = "commit"
        /\ successful[t] = <<"a", "b", "a">>
        /\ GetMimeTypes(QueryView, "a") = <<"text/html", "text/turtle">>
        /\ GetData(QueryView, "a", "text/html") = Text("html2")
        /\ GetData(QueryView, "b", "text/turtle") = Text("ttl2")

\* C12: after a run that commits, for every slug it ingested and every
\* alternate IRI A of the ontology last upserted under that slug, every
\* result of get_definienda(A) on a reader connection holds a row whose
\* ontology identifier is the slug, and that row is not canonical when A
\* differs from the ontology's primary IRI.
C12_AlternateIri ==
    \A t \in Threads :
        (pc[t] = "unlock" /\ outcome[t] = "commit")
            => \A slug \in Range(successful[t]) :
                LET o == OntologyOf(LastGraph(t, slug))
                IN  \A A \in Range(o.alternate_uris) :
                        \A res \in GetDefinienda(QueryView, <<A>>) :
                            \E i \in 1..Len(res) :
                                /\ res[i].ontology_identifier = slug
                                /\ res[i].uri = A
                                /\ (A # o.uri => ~res[i].canonical)

C12_Witness ==
    \E t \in Threads :
        /\ pc[t] = "unlock"
        /\ outcome[t] = "commit"
        /\ "a" \in Range(successful[t])
        /\ LastGraph(t, "a") = "O1"
        /\ \E res \in GetDefinienda(QueryView, << <<"v1">> >>) :
            /\ Len(res) = 1
            /\ res[1] = [uri |-> <<"v1">>, ontology_identifier |-> "a",
                         canonical |-> FALSE, fragment |-> NULL]

(***************************************************************************)
(* Handler: the HTTP routes. Strings that are taken apart or put together  *)
(* (URLs, paths) are sequences of pieces, concatenated with \o.            *)
(***************************************************************************)
\* Handler.__ontology_route; a route other than "/" leaves "/" to the
\* fallback route
OntologyRoute == <<"/", "ui">>

\* str.rstrip("/")
RECURSIVE RStrip(_)
RStrip(path) ==
    IF path # <<>> /\ path[Len(path)] = "/"
        THEN RStrip(SubSeq(path, 1, Len(path) - 1))
        ELSE path

\* urllib.parse.quote on the identifiers of the model: letters are kept, a
\* space becomes %20
quote(value) == IF value = "b c" THEN "b%20c" ELSE value

\* Handler.reverse_url without format and download; identifier and fragment
\* are NULL when None
reverse_url(identifier, fragment) ==
    LET query == IF identifier # NULL
                    THEN <<"?", "identifier=", quote(identifier[1])>> ELSE <<>>
        frag == IF fragment # NULL THEN <<"#", fragment[1]>> ELSE <<>>
    IN  OntologyRoute \o query \o frag

\* Handler.error_response
error_response(code) ==
    [status |-> code, media_type |-> "text/plain", location |-> NULL,
     disposition |-> NULL, stream |-> "",
     content |-> NULL, escaped |-> FALSE]

\* Handler.redirect_response: the pieces of dest are all in quote's safe set
redirect_response(dest, status_code) ==
    [status |-> status_code, media_type |-> "", location |-> dest,
     disposition |-> NULL, stream |-> "",
     content |-> NULL, escaped |-> FALSE]

\* variant: the path is used as it was requested
CandidatesOfExactPath(prefix, path) ==
    LET iri_noproto == <<"://">> \o prefix \o path
    IN  << <<"http">> \o iri_noproto, <<"https">> \o iri_noproto,
           <<"http">> \o iri_noproto \o <<"/">>,
           <<"https">> \o iri_noproto \o <<"/">> >>

\* handle_fallback: the four candidate IRIs
Candidates(prefix, path) ==
    LET iri_noproto == <<"://">> \o prefix \o RStrip(path)
    IN  << <<"http">> \o iri_noproto, <<"https">> \o iri_noproto,
           <<"http">> \o iri_noproto \o <<"/">>,
           <<"https">> \o iri_noproto \o <<"/">> >>

\* Handler.__serve_final_fallback
serve_final_fallback(path) ==
    IF path # <<"/">> THEN error_response(404)
    ELSE redirect_response(reverse_url(NULL, NULL), 303)

\* what can go wrong below a handler: pool.use() raises (no connection can
\* be set up) or a statement of the Query raises
Faults == {"none", "pool", "query"}

\* an exception leaves the function
Raises == [status |-> -1, media_type |-> "", location |-> NULL,
           disposition |-> NULL, stream |-> "", content |-> NULL,
           escaped |-> TRUE]

\* Handler._catch_handler_error: an exception becomes a 500 response
catch_handler_error(outcomes) ==
    {IF r = Raises THEN error_response(500) ELSE r : r \in outcomes}

\* Handler.handle_fallback: the outcomes it can have for a request to
\* hostname (NULL when unknown) and path
handle_fallback(s, hostname, path, fault) ==
    LET prefix == IF public_domain # NULL THEN public_domain ELSE hostname
    IN  IF prefix = NULL THEN {error_response(404)}
        ELSE IF fault # "none" THEN {Raises}
        ELSE {IF defs = <<>> THEN serve_final_fallback(path)
              ELSE redirect_response(
                       reverse_url(Text(defs[1].ontology_identifier),
                                   defs[1].fragment), 303)
              : defs \in GetDefinienda(s, Candidates(prefix, path))}

\* a media type or media range as mimeparse.parse_media_range splits it
MimeParts(m) ==
    IF m = "text/html" THEN <<"text", "html">>
    ELSE IF m = "text/plain" THEN <<"text", "plain">>
    ELSE IF m = "text/turtle" THEN <<"text", "turtle">>
    ELSE IF m = "application/json" THEN <<"application", "json">>
    ELSE IF m = "text/*" THEN <<"text", "*">>
    ELSE <<"*", "*">>

\* the media ranges of the model; "bogus" has no "/" and does not parse
MediaRanges == {"text/html", "text/plain", "text/turtle", "application/json",
                "text/*", "*/*", "bogus"}

\* mimeparse.quality_and_fitness_parsed: (q, fitness) of the range of the
\* header that fits mime_type best, (0, -1) when none does; q is in tenths
quality_and_fitness_parsed(mime_type, ranges) ==
    LET target == MimeParts(mime_type)
        fit(i) ==
            LET r == MimeParts(ranges[i].range)
            IN  IF /\ r[1] \in {target[1], "*"}
                   /\ r[2] \in {target[2], "*"}
                    THEN (IF r[1] = target[1] THEN 100 ELSE 0)
                         + (IF r[2] = target[2] THEN 10 ELSE 0)
                    ELSE -1
        fits == {i \in 1..Len(ranges) : fit(i) >= 0}
    IN  IF fits = {} THEN <<0, -1>>
        ELSE LET best == CHOOSE i \in fits :
                            \A j \in fits : \/ fit(j) < fit(i)
                                            \/ fit(j) = fit(i) /\ i <= j
             IN  <<ranges[best].q, fit(best)>>

\* (q, fitness, pos) of one offer is below that of another
WeightBelow(a, b) ==
    \/ a[1] < b[1]
    \/ a[1] = b[1] /\ a[2] < b[2]
    \/ a[1] = b[1] /\ a[2] = b[2] /\ a[3] < b[3]

\* mimeparse.best_match: the offer with the greatest (q, fitness, position),
\* "" when its q is 0
best_match(supported, ranges) ==
    LET weight(pos) ==
            LET qf == quality_and_fitness_parsed(supported[pos], ranges)
            IN  <<qf[1], qf[2], pos>>
        last == CHOOSE pos \in 1..Len(supported) :
                    \A other \in 1..Len(supported) :
                        other = pos \/ WeightBelow(weight(other), weight(pos))
    IN  IF weight(last)[1] # 0 THEN supported[last] ELSE ""

\* variant: the Accept headers are not looked at
negotiate_default(accepts, offers, default) == default

\* negotiate: accepts are the media ranges of the Accept headers; None is ""
negotiate(accepts, offers, default) ==
    IF Len(accepts) = 0 THEN default
    ELSE IF \E i \in 1..Len(accepts) : accepts[i].range = "bogus" THEN default
    ELSE IF best_match(offers, accepts) # "" THEN best_match(offers, accepts)
    ELSE default

\* extension_from_type; NULL is None
extension_from_type(typ) ==
    IF typ = "text/turtle" THEN Text("turtle")
    ELSE IF typ = "text/plain" THEN Text("nt")
    ELSE NULL

\* Query.has_mime_type
HasMimeType(s, identifier, typ) ==
    \E i \in 1..Len(s.DATA) : /\ s.DATA[i].MIME_TYPE = typ
                              /\ s.DATA[i].ONTOLOGY_ID = identifier

\* Handler.serve_ontology
serve_ontology(s, identifier, typ, download) ==
    LET content == GetData(s, identifier, typ)
        ext == extension_from_type(typ)
        filename == IF ext # NULL THEN <<identifier, ".", ext[1]>> ELSE <<identifier>>
    IN  IF content = NULL THEN error_response(500)
        ELSE [status |-> 200, media_type |-> typ, location |-> NULL,
              disposition |-> <<IF download THEN "attachment" ELSE "inline">>
                                \o filename,
              stream |-> "", content |-> content, escaped |-> FALSE]

\* variant: without text/plain the first offer is served
FallbackDecisionFirstOffer(decision, offers) ==
    IF decision = "" \/ decision \notin Range(offers)
        THEN offers[1]
        ELSE decision

\* handle_ontology: "if decision is None or decision not in offers"
FallbackDecision(decision, offers) ==
    IF decision = "" \/ decision \notin Range(offers)
        THEN (IF "text/plain" \in Range(offers) THEN "text/plain" ELSE "")
        ELSE decision

\* Handler.handle_ontology; typ is "" when the request has no format
handle_ontology(s, accepts, identifier, typ, download, fault) ==
    IF fault # "none" THEN Raises
    ELSE IF typ = ""
        THEN LET offers == GetMimeTypes(s, identifier)
                 decision == FallbackDecision(negotiate(accepts, offers, ""), offers)
             IN  IF Len(offers) = 0 THEN error_response(404)
                 ELSE IF decision = "" THEN error_response(406)
                 ELSE serve_ontology(s, identifier, decision, download)
        ELSE IF ~HasMimeType(s, identifier, typ) THEN error_response(404)
             ELSE serve_ontology(s, identifier, typ, download)

\* the identifiers Query.list_ontologies yields: the ONTOLOGIES view has
\* one row per DEFINIENDA row with FRAGMENT NULL and CANONICAL true
ListedIds(s) ==
    {s.DEFINIENDA[i].ONTOLOGY_ID :
        i \in {j \in 1..Len(s.DEFINIENDA) : /\ s.DEFINIENDA[j].FRAGMENT = NULL
                                            /\ s.DEFINIENDA[j].CANONICAL}}

\* StreamingResponse: status 200, the body is produced when the server
\* iterates it
StreamingResponse(kind, media_type) ==
    [status |-> 200, media_type |-> media_type, location |-> NULL,
     disposition |-> NULL, stream |-> kind, content |-> NULL,
     escaped |-> FALSE]

\* Handler.serve_index: __stream_root_text is a generator function, nothing
\* of it runs here; __stream_root_html is a plain function, its pool.use()
\* runs here and its list_ontologies() only when the body is iterated
serve_index(typ, fault) ==
    IF typ \notin {"text/plain", "text/html"} THEN error_response(404)
    ELSE IF typ # "text/html" THEN StreamingResponse("text", "text/plain")
    ELSE IF fault = "pool" THEN Raises
    ELSE StreamingResponse("html", "text/html")

\* Handler.handle_root; typ is "" when the request has no format
handle_root(accepts, typ, fault) ==
    serve_index(IF typ # "" THEN typ
                ELSE negotiate(accepts, <<"text/plain", "text/html">>, "text/plain"),
                fault)

\* the Ontology list_ontologies builds from the row of the ONTOLOGIES view
\* that DEFINIENDA row i gives; the arrays are aggregated in rowid order
\* (the ORDER BY of the subqueries orders their one result row)
ListedOntology(s, i) ==
    LET identifier == s.DEFINIENDA[i].ONTOLOGY_ID
        others == SelectSeq(s.DEFINIENDA,
                            LAMBDA r : /\ r.ONTOLOGY_ID = identifier
                                       /\ ~r.CANONICAL
                                       /\ r.FRAGMENT = NULL)
        data == SelectSeq(s.DATA, LAMBDA r : r.ONTOLOGY_ID = identifier)
    IN  [identifier |-> identifier,
         uri |-> s.DEFINIENDA[i].URI,
         alternate_uris |-> [k \in 1..Len(others) |-> others[k].URI],
         definienda_count |->
             Len(SelectSeq(s.DEFINIENDA,
                           LAMBDA r : r.CANONICAL /\ r.ONTOLOGY_ID = identifier)),
         mime_types |-> [k \in 1..Len(data) |-> data[k].MIME_TYPE]]

\* Query.list_ontologies: the sequences of ontologies the statement can
\* yield, ORDER BY NAMES.SORT_KEY DESC; rows of equal key come in any order
ListOntologies(s) ==
    LET rows == {i \in 1..Len(s.DEFINIENDA) : /\ s.DEFINIENDA[i].FRAGMENT = NULL
                                              /\ s.DEFINIENDA[i].CANONICAL}
        n == Cardinality(rows)
        orders == {f \in [1..n -> rows] :
                    /\ \A i, j \in 1..n : i # j => f[i] # f[j]
                    /\ \A i, j \in 1..n :
                        i < j => TextRank(s.DEFINIENDA[f[i]].SORT_KEY)
                                    >= TextRank(s.DEFINIENDA[f[j]].SORT_KEY)}
    IN  {[i \in 1..n |-> ListedOntology(s, f[i])] : f \in orders}

\* DEFAULT_INDEX_TXT_HEADER, DEFAULT_INDEX_TXT_FOOTER
IndexTxtHeader == <<"# Ontologies:\n">>
IndexTxtFooter == <<"\n---\nPowered by lontod: https://github.com/tkw1536/lontod\n">>

\* Handler.reverse_url(identifier, typ, download=True)
reverse_url_download(identifier, typ) ==
    OntologyRoute \o <<"?", "identifier=", quote(identifier), "&",
                       "format=", quote(typ), "&", "download=1">>

\* the chunks __stream_root_text yields in one turn of its loop over
\* list_ontologies(): the lines of the ontology, and the footer, whose
\* yield is a statement of the loop body
OntologyChunks(onto) ==
    << <<"## Ontology ">> \o onto.uri \o <<":\n">>,
       <<"[">> \o reverse_url(Text(onto.identifier), NULL) \o <<"]\n">>,
       <<ToString(onto.definienda_count), " Definienda\n">>,
       <<"\n">>,
       <<"Available URIs:\n">> >>
    \o [k \in 1..Len(onto.alternate_uris) |->
            <<"* ">> \o onto.alternate_uris[k] \o <<"\n">>]
    \o << <<"\n">>, <<"Available Formats:\n">> >>
    \o [k \in 1..Len(onto.mime_types) |->
            <<"* ", onto.mime_types[k], " [">>
                \o reverse_url_download(onto.identifier, onto.mime_types[k])
                \o <<"]\n">>]
    \o << <<"\n">>, IndexTxtFooter >>

RECURSIVE TextChunksFrom(_, _)
TextChunksFrom(listing, i) ==
    IF i > Len(listing) THEN <<>>
    ELSE OntologyChunks(listing[i]) \o TextChunksFrom(listing, i + 1)

\* the chunks of the text/plain index for what list_ontologies yields
TextChunks(listing) == <<IndexTxtHeader>> \o TextChunksFrom(listing, 1)

\* Handler.__stream_root_text iterated by the server: pool.use() and
\* list_ontologies() run now, and what they raise leaves the generator
stream_root_text(listing, r, fault) ==
    IF fault # "none" THEN [r EXCEPT !.stream = "aborted", !.escaped = TRUE]
    ELSE [r EXCEPT !.stream = "done", !.content = Text(TextChunks(listing))]

\* the generator of __stream_root_html iterated by the server
stream_root_html(s, r, fault) ==
    IF fault = "query" THEN [r EXCEPT !.stream = "aborted", !.escaped = TRUE]
    ELSE [r EXCEPT !.stream = "done", !.content = Text(ListedIds(s))]

(***************************************************************************)
(* SpecWeb: requests answered from a committed index                       *)
(***************************************************************************)
WebIds == {"a", "b c"}

\* the indexes the requests are answered from: up to two upserts
WebStores ==
    LET one == {Upsert(EmptyStore, identifier, OntologyOf(g), key) :
                    identifier \in WebIds, g \in Graphs, key \in Keys}
    IN  {EmptyStore} \cup one \cup
        {Upsert(s, identifier, OntologyOf(g), key) :
            s \in one, identifier \in WebIds, g \in Graphs, key \in Keys}

\* req.url.hostname and req.url.path
Hostnames == {NULL, <<"h">>, <<"g">>}
RequestPaths == {<<"/">>, <<"/", "o">>, <<"/", "o", "/">>,
                 <<"/", "o", "/", "T">>, <<"/", "o", "/", "T", "/">>,
                 <<"/", "x">>}

InitWeb ==
    /\ fs = [file \in Files |-> IF file = FileH THEN "O1" ELSE "absent"]
    /\ changes = 0
    /\ faults = 0
    /\ \E s \in WebStores :
        conn = [schema |-> TRUE, in_txn |-> FALSE, committed |-> s, working |-> s]
    /\ lock = NoThread
    /\ watching = FALSE
    /\ timer = "none"
    /\ pc = [t \in Threads |-> "idle"]
    /\ indexed = TRUE
    /\ idx = [t \in Threads |-> 1]
    /\ todo = [t \in Threads |-> {}]
    /\ successful = [t \in Threads |-> <<>>]
    /\ failed = [t \in Threads |-> <<>>]
    /\ failures = [t \in Threads |-> <<>>]
    /\ ret = [t \in Threads |-> "none"]
    /\ outcome = [t \in Threads |-> "none"]
    /\ snap = [t \in Threads |-> EmptyStore]
    /\ processed = [t \in Threads |-> <<>>]
    /\ ops = 0
    /\ lastOp = NoOp
    /\ public_domain \in {NULL, <<"h">>}
    /\ req = NoRequest
    /\ resp = NoResponse
    /\ fids = {}
    /\ fid_values = {}
    /\ calls = <<>>
    /\ lang_g = {}
    /\ lang_g0 = {}
    /\ preferences = NULL
    /\ restricted = FALSE
    /\ sections = <<>>
    /\ lang_g1 = NULL
    /\ pool = [q |-> <<>>]
    /\ users = <<>>
    /\ deb = [timers |-> <<>>]
    /\ pkl = [heap |-> <<>>]

WebFrame == <<fs, changes, faults, conn, ctl, ops, lastOp, public_domain,
              fids, fid_values, calls, lang_g, lang_g0, preferences,
              restricted, sections,
        lang_g1,
        pool,
        users,
        deb,
        pkl>>

\* a request to the fallback route /{path:path}
Fallback ==
    /\ req = NoRequest
    /\ \E hostname \in Hostnames, path \in RequestPaths, fault \in Faults :
        /\ req' = [route |-> "fallback", hostname |-> hostname, path |-> path,
                   fault |-> fault]
        /\ resp' \in catch_handler_error(
                        handle_fallback(QueryView, hostname, path, fault))
    /\ UNCHANGED WebFrame

\* the Accept headers of a request: media ranges with their q in tenths
AcceptHeaders ==
    {<<>>} \cup
    {<<[range |-> r, q |-> q]>> : r \in MediaRanges, q \in {0, 10}} \cup
    {<<[range |-> r, q |-> 10], [range |-> "*/*", q |-> 5]>> :
        r \in {"text/html", "application/json"}}

\* the identifier and format query parameters
RequestIds == {"a", "b c", "zz"}
RequestFormats == {"", "text/plain", "text/turtle", "application/json"}

\* a request to the ontology route with an identifier: Handler.handle calls
\* handle_ontology
HandleOntology ==
    /\ req = NoRequest
    /\ \E accepts \in AcceptHeaders, identifier \in RequestIds,
          typ \in RequestFormats, download \in BOOLEAN, fault \in Faults :
        /\ req' = [route |-> "ontology", accepts |-> accepts,
                   identifier |-> Text(identifier), typ |-> typ,
                   download |-> download, fault |-> fault]
        /\ resp' \in catch_handler_error(
                        {handle_ontology(QueryView, accepts, identifier, typ,
                                         download, fault)})
    /\ UNCHANGED WebFrame

\* a request to the ontology route without identifier: Handler.handle calls
\* handle_root and returns the streaming response of serve_index
HandleRoot ==
    /\ req = NoRequest
    /\ \E accepts \in AcceptHeaders, typ \in RequestFormats, fault \in Faults :
        /\ req' = [route |-> "ontology", accepts |-> accepts,
                   identifier |-> NULL, typ |-> typ, download |-> FALSE,
                   fault |-> fault]
        /\ resp' \in catch_handler_error({handle_root(accepts, typ, fault)})
    /\ UNCHANGED WebFrame

\* the server iterates the body of a streaming response
StreamBody ==
    /\ resp.stream \in {"text", "html"}
    /\ \E listing \in ListOntologies(QueryView) :
          resp' = IF resp.stream = "text"
                     THEN stream_root_text(listing, resp, req.fault)
                     ELSE stream_root_html(QueryView, resp, req.fault)
    /\ UNCHANGED <<WebFrame, req>>

NextWeb ==
    \/ Fallback
    \/ HandleOntology
    \/ HandleRoot
    \/ StreamBody

SpecWeb == InitWeb /\ [][NextWeb]_vars

(***************************************************************************)
(* RenderContext.fragment. An IRI is the sequence of its segments between  *)
(* "/", a segment the sequence of its parts between "#", a part a sequence *)
(* of pieces in which "_" stands alone, so that the identifiers the code   *)
(* glues together with "_" can coincide with identifiers IRIs bring along. *)
(***************************************************************************)
\* http://a/Thing, http://b/ns#Thing, http://a/Thing_2, http://a/section_Thing,
\* http://a/ and http://a
IriThingA == << <<<<"http:">>>>, <<<<>>>>, <<<<"a">>>>, <<<<"Thing">>>> >>
IriThingB == << <<<<"http:">>>>, <<<<>>>>, <<<<"b">>>>, <<<<"ns">>, <<"Thing">>>> >>
IriThing2 == << <<<<"http:">>>>, <<<<>>>>, <<<<"a">>>>, <<<<"Thing", "_", "2">>>> >>
IriSectionThing ==
    << <<<<"http:">>>>, <<<<>>>>, <<<<"a">>>>, <<<<"section", "_", "Thing">>>> >>
IriSlash == << <<<<"http:">>>>, <<<<>>>>, <<<<"a">>>>, <<<<>>>> >>
IriDomain == << <<<<"http:">>>>, <<<<>>>>, <<<<"a">>>> >>
FragIris == {IriThingA, IriThingB, IriThing2, IriSectionThing, IriSlash, IriDomain}

\* the groups fragment is called with
FragGroups == {"", "section"}

\* RenderContext.MAX_FID_TRIES
MAX_FID_TRIES == 1000

\* md5(str(uri)).hexdigest(): one piece per IRI, free of "_"
Md5(iri) == IF iri = IriSlash THEN <<"md5slash">>
            ELSE IF iri = IriDomain THEN <<"md5domain">>
            ELSE <<"md5other">>

\* str(suffix)
SuffixText(suffix) == <<"2", "3", "4", "5", "6", "7", "8", "9">>[suffix - 1]

\* RenderContext.__fragment_pure without title: the identifiers it yields
FragmentPure(iri) ==
    LET last == iri[Len(iri)]
    IN  IF Len(last) = 1 /\ last[1] = <<>> THEN <<>>
        ELSE IF Len(iri) < 4 THEN <<>>
        ELSE IF last[Len(last)] = <<>> THEN <<>>
        ELSE <<last[Len(last)]>>

\* RenderContext.__fragment: its count-th identifier, count from 0
FragmentAt(iri, count) ==
    LET pure == FragmentPure(iri)
        pure_identifiers == IF Len(pure) = 0 THEN <<Md5(iri)>> ELSE pure
        k == count - Len(pure)
    IN  IF count < Len(pure) THEN pure[count + 1]
        ELSE pure_identifiers[(k % Len(pure_identifiers)) + 1]
             \o <<"_", SuffixText(2 + (k \div Len(pure_identifiers)))>>

\* candidate = fid if group == "" else f"{group}_" + fid
CandidateAt(iri, group, count) ==
    IF group = "" THEN FragmentAt(iri, count)
    ELSE <<group, "_">> \o FragmentAt(iri, count)

\* a RenderContext: __fids as (group, iri, fid) triples and __fid_values
NewContext == [fids |-> {}, fid_values |-> {}]

\* variant: a candidate is only compared with the identifiers of its group
TakenInGroup(ctx, group) == {f[3] : f \in {h \in ctx.fids : h[1] = group}}

\* the identifiers a candidate of the group must differ from
Taken(ctx, group) == ctx.fid_values

\* the first candidate that is not in use yet; OverflowError at MAX_FID_TRIES
FirstFree(ctx, iri, group) ==
    LET free == {count \in 0..Cardinality(Taken(ctx, group)) :
                    CandidateAt(iri, group, count) \notin Taken(ctx, group)}
        count == CHOOSE c \in free : \A d \in free : c <= d
    IN  IF count >= MAX_FID_TRIES THEN NULL
        ELSE Text(CandidateAt(iri, group, count))

\* RenderContext.fragment on the context value c
fragment_on(c, iri, group) ==
    IF \E f \in c.fids : f[1] = group /\ f[2] = iri
    THEN [ctx |-> c,
          fid |-> (CHOOSE f \in c.fids : f[1] = group /\ f[2] = iri)[3]]
    ELSE LET the_fid == FirstFree(c, iri, group)
         IN  IF the_fid = NULL THEN NULL
             ELSE [ctx |-> [fids |-> c.fids \cup {<<group, iri, the_fid[1]>>},
                            fid_values |-> c.fid_values \cup {the_fid[1]}],
                   fid |-> the_fid[1]]

\* RenderContext.fragment: the context after the call and the identifier
\* returned, or NULL when OverflowError is raised; the context the call is
\* made on is computed once
fragment(ctx, iri, group) ==
    CHOOSE r \in {fragment_on(c, iri, group) : c \in {ctx}} : TRUE

\* a call of RenderContext.fragment on the context (fids, fid_values)
Fragment(iri, group) ==
    /\ Len(calls) < MaxCalls
    /\ LET r == fragment([fids |-> fids, fid_values |-> fid_values], iri, group)
       IN  /\ r # NULL
           /\ fids' = r.ctx.fids
           /\ fid_values' = r.ctx.fid_values
           /\ calls' = Append(calls, [iri |-> iri, group |-> group,
                                      fid |-> r.fid])
    /\ UNCHANGED <<fs, changes, faults, conn, ctl, ops, lastOp,
                   public_domain, req, resp, lang_g, lang_g0, preferences,
                   restricted, sections,
        lang_g1,
        pool,
        users,
        deb,
        pkl>>

InitFrag == InitIdx

NextFrag == \E iri \in FragIris, group \in FragGroups : Fragment(iri, group)

SpecFrag == InitFrag /\ [][NextFrag]_vars

(***************************************************************************)
(* restrict_languages. A triple is (subject, predicate, object); an object *)
(* is a URIRef or a Literal with a value and a language, the language NULL *)
(* for a literal without a tag.                                            *)
(***************************************************************************)
LangSubjects == {"subject_1", "subject_2"}
LangPredicates == {"predicate"}

\* language tags in the order of str comparison
TagOrder == <<"de", "en", "fr">>
Tags == {TagOrder[i] : i \in 1..Len(TagOrder)}
TagRank(tag) == CHOOSE i \in 1..Len(TagOrder) : TagOrder[i] = tag

Literal(value, lang) == [literal |-> TRUE, value |-> value, language |-> lang]
URIRef(value) == [literal |-> FALSE, value |-> value, language |-> NULL]

LangObjects ==
    {Literal("no language", NULL), Literal("german", Text("de")),
     Literal("english", Text("en")), Literal("english too", Text("en")),
     Literal("french", Text("fr")), URIRef("object")}

LangTriples == LangSubjects \X LangPredicates \X LangObjects

\* the preference sequences; None and the empty sequence behave alike
Preferences == {NULL, <<"fr", "en">>, <<"en">>, <<"it", "de">>}

\* g.objects(subject=s, predicate=p)
objects(graph, s, p) == {t[3] : t \in {u \in graph : u[1] = s /\ u[2] = p}}

\* _subject_predicates
subject_predicates(graph) == {<<t[1], t[2]>> : t \in graph}

\* _pick_language: NULL when there is no language to pick
pick_language(offers, prefs) ==
    IF offers = {} \/ offers = {NULL} THEN NULL
    ELSE IF \E i \in 1..Len(prefs) : Text(prefs[i]) \in offers
         THEN LET i == CHOOSE i \in 1..Len(prefs) :
                          /\ Text(prefs[i]) \in offers
                          /\ \A j \in 1..(i - 1) : Text(prefs[j]) \notin offers
              IN  Text(prefs[i])
         ELSE LET strs == {l[1] : l \in offers \ {NULL}}
              IN  Text(CHOOSE l \in strs : \A m \in strs : TagRank(l) <= TagRank(m))

\* the language restrict_languages picks for (s, p)
choice_of(graph, s, p, prefs) ==
    pick_language({o.language : o \in {q \in objects(graph, s, p) : q.literal}},
                  prefs)

\* variant: the test of the removal loop is inverted, the literals of the
\* chosen language are the ones removed
removed_by_restrict_chosen(graph, prefs) ==
    UNION {LET choice == choice_of(graph, sp[1], sp[2], prefs)
           IN  IF choice = NULL THEN {}
               ELSE {<<sp[1], sp[2], o>> :
                        o \in {q \in objects(graph, sp[1], sp[2]) :
                                  q.literal /\ q.language = choice}}
           : sp \in subject_predicates(graph)}

\* the triples restrict_languages removes: under every pair with a choice,
\* each Literal whose language is not the choice
removed_by_restrict(graph, prefs) ==
    UNION {LET choice == choice_of(graph, sp[1], sp[2], prefs)
           IN  IF choice = NULL THEN {}
               ELSE {<<sp[1], sp[2], o>> :
                        o \in {q \in objects(graph, sp[1], sp[2]) :
                                  q.literal /\ q.language # choice}}
           : sp \in subject_predicates(graph)}

\* restrict_languages, called on the graph at most twice in a row
RestrictLanguages ==
    /\ lang_g1 = NULL
    /\ lang_g' = lang_g \ removed_by_restrict(lang_g, preferences)
    /\ restricted' = TRUE
    /\ lang_g1' = IF restricted THEN Text(lang_g) ELSE NULL
    /\ UNCHANGED <<fs, changes, faults, conn, ctl, ops, lastOp, public_domain,
                   req, resp, fids, fid_values, calls, lang_g0, preferences,
                   sections, pool, users,
        deb,
        pkl>>

InitLang ==
    /\ fs = [file \in Files |-> IF file = FileH THEN "O1" ELSE "absent"]
    /\ changes = 0
    /\ faults = 0
    /\ conn = [schema |-> FALSE, in_txn |-> FALSE,
               committed |-> EmptyStore, working |-> EmptyStore]
    /\ lock = NoThread
    /\ watching = FALSE
    /\ timer = "none"
    /\ pc = [t \in Threads |-> "idle"]
    /\ indexed = FALSE
    /\ idx = [t \in Threads |-> 1]
    /\ todo = [t \in Threads |-> {}]
    /\ successful = [t \in Threads |-> <<>>]
    /\ failed = [t \in Threads |-> <<>>]
    /\ failures = [t \in Threads |-> <<>>]
    /\ ret = [t \in Threads |-> "none"]
    /\ outcome = [t \in Threads |-> "none"]
    /\ snap = [t \in Threads |-> EmptyStore]
    /\ processed = [t \in Threads |-> <<>>]
    /\ ops = 0
    /\ lastOp = NoOp
    /\ public_domain = NULL
    /\ req = NoRequest
    /\ resp = NoResponse
    /\ fids = {}
    /\ fid_values = {}
    /\ calls = <<>>
    /\ lang_g0 \in SUBSET LangTriples
    /\ lang_g = lang_g0
    /\ preferences \in Preferences
    /\ restricted = FALSE
    /\ sections = <<>>
    /\ lang_g1 = NULL
    /\ pool = [q |-> <<>>]
    /\ users = <<>>
    /\ deb = [timers |-> <<>>]
    /\ pkl = [heap |-> <<>>]

NextLang == RestrictLanguages

SpecLang == InitLang /\ [][NextLang]_vars

(***************************************************************************)
(* Rendering an extracted ontology and indexing what was rendered. The    *)
(* HTML is the sequence of its elements that carry an id, each with its    *)
(* tag, the kind of its child that lists the IRI (a table for a definition *)
(* block, a dl for the metadata) and the text of the code element there.   *)
(***************************************************************************)
\* owl:ObjectProperty and owl:FunctionalProperty
OwlObjectProperty ==
    << <<<<"http:">>>>, <<<<>>>>, <<<<"www.w3.org">>>>, <<<<"2002">>>>,
       <<<<"07">>>>, <<<<"owl">>, <<"ObjectProperty">>>> >>
OwlFunctionalProperty ==
    << <<<<"http:">>>>, <<<<>>>>, <<<<"www.w3.org">>>>, <<<<"2002">>>>,
       <<<<"07">>>>, <<<<"owl">>, <<"FunctionalProperty">>>> >>

\* the indexed types that have a section here, in the order of the Enum
IndexedProperty == <<OwlObjectProperty, OwlFunctionalProperty>>

\* LONTOD.Metadata, LONTOD.Namespaces, LONTOD.Legend
LontodIri(name) ==
    << <<<<"https:">>>>, <<<<>>>>, <<<<"github.com">>>>, <<<<"tkw1536">>>>,
       <<<<"lontod">>, <<name>>>> >>

\* the ontology http://a with the version IRI http://b
RenderedUri == IriDomain
RenderedAlternate == << <<<<"http:">>>>, <<<<>>>>, <<<<"b">>>> >>

\* the subjects that are definienda and the titles they may carry
DefIris == {IriThingA, IriThingB}
Titles == {"Thing", "Other"}

\* Definiendum values: the subject and the title _DefiniendumLike.title picks
Definienda == [iri : DefIris, title : Titles]

\* the lists __extract_section builds for one type: each subject once, in
\* the order the graph yields them
DefiniendaLists ==
    {<<>>} \cup {<<d>> : d \in Definienda}
    \cup {<<d, e>> : <<d, e>> \in {p \in Definienda \X Definienda :
                                      p[1].iri # p[2].iri}}

\* OntologyExtractor.__make_sections: a section for every indexed type that
\* has a subject
MakeSections(lists) ==
    SelectSeq([i \in 1..Len(IndexedProperty) |->
                  [prop |-> IndexedProperty[i], definienda |-> lists[i]]],
              LAMBDA sec : sec.definienda # <<>>)

SectionLists == {MakeSections(<<l1, l2>>) : l1 \in DefiniendaLists,
                                            l2 \in DefiniendaLists}

Element(tag, id, child, text) ==
    [tag |-> tag, id |-> id, child |-> child, code |-> text]

\* an element whose id is ctx.fragment(iri, group), and one with a fixed id
Fragmented(tag, iri, group, child, text) ==
    [tag |-> tag, iri |-> Text(iri), group |-> group, id |-> NULL,
     child |-> child, code |-> text]
Fixed(tag, id) ==
    [tag |-> tag, iri |-> NULL, group |-> "", id |-> Text(<<id>>),
     child |-> "none", code |-> NULL]

\* Definiendum.to_html: a div with the id fragment(iri, title) around the
\* table whose first row is (th "IRI", td > code)
DefiniendumHtml(d) == Fragmented("div", d.iri, d.title, "table", Text(d.iri))

\* TypeDefinienda.to_html for the sections from the i-th on: the section
\* element, then the blocks of its definienda
RECURSIVE SectionsHtml(_, _)
SectionsHtml(secs, i) ==
    IF i > Len(secs) THEN <<>>
    ELSE <<Fragmented("section", secs[i].prop, "section", "none", NULL)>>
         \o [j \in 1..Len(secs[i].definienda) |->
                DefiniendumHtml(secs[i].definienda[j])]
         \o SectionsHtml(secs, i + 1)

\* the namespaces of the ontology: (prefix, namespace) pairs
Namespaces == << <<"", "http://a/">>, <<"owl", "http://www.w3.org/2002/07/owl#">> >>

\* Ontology.to_html before the identifiers are handed out: head, metadata,
\* sections, namespaces and legend in document order; the table of contents
\* only links to identifiers handed out before
OntologyElements(secs) ==
    << Fixed("script", "schema.org"),
       Fixed("div", "content"),
       Fragmented("div", LontodIri("Metadata"), "section", "dl",
                  Text(RenderedUri)) >>
    \o SectionsHtml(secs, 1)
    \o << Fragmented("div", LontodIri("Namespaces"), "section", "dl", NULL) >>
    \o [i \in 1..Len(Namespaces) |->
          Fixed("dt", IF Namespaces[i][1] = "" THEN ":" ELSE Namespaces[i][1])]
    \o (IF Len(secs) = 0 THEN <<>>
        ELSE << Fragmented("h2", LontodIri("Legend"), "section", "none", NULL) >>)

\* Ontology.to_html: the elements with the identifiers one RenderContext
\* hands out in document order
OntologyHtml(secs) ==
    LET elems == OntologyElements(secs)
        after[k \in 0..Len(elems)] ==
            IF k = 0 THEN [ctx |-> NewContext, fid |-> <<>>]
            ELSE IF elems[k].iri = NULL
                 THEN [ctx |-> after[k - 1].ctx, fid |-> elems[k].id[1]]
                 ELSE fragment(after[k - 1].ctx, elems[k].iri[1], elems[k].group)
    IN  [k \in 1..Len(elems) |->
            Element(elems[k].tag, Text(after[k].fid), elems[k].child,
                    elems[k].code)]

\* definienda_of: (code text, div id) of every div with an id whose table has
\* the row (th "IRI", td > code), in document order
definienda_of(html) ==
    LET blocks == SelectSeq(html, LAMBDA e : /\ e.tag = "div"
                                             /\ e.child = "table"
                                             /\ e.code # NULL
                                             /\ e.id # NULL)
    IN  [i \in 1..Len(blocks) |-> <<blocks[i].code[1], blocks[i].id[1]>>]

\* dict(pairs) as its items: a key stays where it was first inserted and
\* carries the value inserted last
DictItems(pairs) ==
    LET firsts == SelectSeq([i \in 1..Len(pairs) |-> i],
                            LAMBDA i : \A j \in 1..(i - 1) : pairs[j][1] # pairs[i][1])
        last(k) == CHOOSE j \in 1..Len(pairs) :
                      /\ pairs[j][1] = k
                      /\ \A m \in (j + 1)..Len(pairs) : pairs[m][1] # k
    IN  [n \in 1..Len(firsts) |->
            <<pairs[firsts[n]][1], pairs[last(pairs[firsts[n]][1])][2]>>]

\* owl_ontology: the Ontology value of the rendered sections
RenderedOntology(secs) ==
    LET html == as_utf8(OntologyHtml(secs))
    IN  [uri |-> RenderedUri,
         alternate_uris |-> <<RenderedAlternate>>,
         encodings |-> << <<"text/html", html>> >>,
         definienda |-> DictItems(definienda_of(html))]

\* the ontology is rendered and stored under the identifier "a"
IndexRendered ==
    /\ conn.committed = EmptyStore
    /\ LET s == Upsert(conn.working, "a", RenderedOntology(sections), NoKey)
       IN  conn' = [conn EXCEPT !.working = s, !.committed = s]
    /\ UNCHANGED <<fs, changes, faults, ctl, ops, lastOp, public_domain, req,
                   resp, fids, fid_values, calls, lang_g, lang_g0,
                   preferences, restricted, sections,
        lang_g1,
        pool,
        users,
        deb,
        pkl>>

InitRender ==
    /\ fs = [file \in Files |-> IF file = FileH THEN "O1" ELSE "absent"]
    /\ changes = 0
    /\ faults = 0
    /\ conn = [schema |-> TRUE, in_txn |-> FALSE,
               committed |-> EmptyStore, working |-> EmptyStore]
    /\ lock = NoThread
    /\ watching = FALSE
    /\ timer = "none"
    /\ pc = [t \in Threads |-> "idle"]
    /\ indexed = FALSE
    /\ idx = [t \in Threads |-> 1]
    /\ todo = [t \in Threads |-> {}]
    /\ successful = [t \in Threads |-> <<>>]
    /\ failed = [t \in Threads |-> <<>>]
    /\ failures = [t \in Threads |-> <<>>]
    /\ ret = [t \in Threads |-> "none"]
    /\ outcome = [t \in Threads |-> "none"]
    /\ snap = [t \in Threads |-> EmptyStore]
    /\ processed = [t \in Threads |-> <<>>]
    /\ ops = 0
    /\ lastOp = NoOp
    /\ public_domain = NULL
    /\ req = NoRequest
    /\ resp = NoResponse
    /\ fids = {}
    /\ fid_values = {}
    /\ calls = <<>>
    /\ lang_g = {}
    /\ lang_g0 = {}
    /\ preferences = NULL
    /\ restricted = FALSE
    /\ sections \in SectionLists
    /\ lang_g1 = NULL
    /\ pool = [q |-> <<>>]
    /\ users = <<>>
    /\ deb = [timers |-> <<>>]
    /\ pkl = [heap |-> <<>>]

NextRender == IndexRendered

SpecRender == InitRender /\ [][NextRender]_vars

(***************************************************************************)
(* Pool. Items are numbered in the order setup creates them. The sections  *)
(* under Pool._lock are single steps; the reset of put runs before the     *)
(* lock is taken and is a step of its own.                                 *)
(***************************************************************************)
PoolThreads == {"r1", "r2"}
PoolSizes == 0..2
NoItem == 0

\* Pool.__init__; torn counts the teardown calls per item, reset holds the
\* items reset since they were last handed out, last is the latest call:
\* the item it handled, whether it called setup and the deque it found
NewPool(size) ==
    [q |-> <<>>, maxsize |-> size, counter |-> 0,
     torn |-> [i \in 1..(MaxSetups + 1) |-> 0], reset |-> {},
     last |-> [op |-> "init", item |-> NoItem, made |-> FALSE,
               before |-> <<>>]]

\* variant: the item at the left end is returned and stays in the deque
pool_get_peek(p) ==
    IF Len(p.q) = 0
    THEN [p EXCEPT !.counter = p.counter + 1,
                   !.last = [op |-> "get", item |-> p.counter + 1, made |-> TRUE,
                             before |-> p.q]]
    ELSE [p EXCEPT !.reset = p.reset \ {p.q[1]},
                   !.last = [op |-> "get", item |-> p.q[1], made |-> FALSE,
                             before |-> p.q]]

\* Pool.get: the pool after the call; the item returned is last.item
pool_get(p) ==
    IF Len(p.q) = 0
    THEN [p EXCEPT !.counter = p.counter + 1,
                   !.last = [op |-> "get", item |-> p.counter + 1, made |-> TRUE,
                             before |-> p.q]]
    ELSE [p EXCEPT !.q = Tail(p.q), !.reset = p.reset \ {p.q[1]},
                   !.last = [op |-> "get", item |-> p.q[1], made |-> FALSE,
                             before |-> p.q]]

\* self._reset(item), the first statement of Pool.put
pool_reset(p, item) == [p EXCEPT !.reset = p.reset \cup {item}]

\* variant: the item is appended whatever the length of the deque
pool_store_always(p, item) ==
    [p EXCEPT !.q = Append(p.q, item),
              !.last = [op |-> "put", item |-> item, made |-> FALSE,
                             before |-> p.q]]

\* the locked section of Pool.put
pool_store(p, item) ==
    IF Len(p.q) = p.maxsize
    THEN [p EXCEPT !.torn[item] = p.torn[item] + 1,
                   !.last = [op |-> "put", item |-> item, made |-> FALSE,
                             before |-> p.q]]
    ELSE [p EXCEPT !.q = Append(p.q, item),
                   !.last = [op |-> "put", item |-> item, made |-> FALSE,
                             before |-> p.q]]

\* Pool.teardown
pool_teardown(p) ==
    IF Len(p.q) > 0
    THEN [p EXCEPT !.q = Tail(p.q), !.torn[p.q[1]] = p.torn[p.q[1]] + 1,
                   !.last = [op |-> "teardown", item |-> p.q[1], made |-> FALSE,
                             before |-> p.q]]
    ELSE [p EXCEPT !.last = [op |-> "teardown", item |-> NoItem, made |-> FALSE,
                             before |-> p.q]]

PoolFrame == <<fs, changes, faults, conn, ctl, ops, lastOp, public_domain,
               req, resp, fids, fid_values, calls, lang_g, lang_g0,
               preferences, restricted, sections, lang_g1, deb,
        pkl>>

\* what a request thread does: kind is "use" for a with pool.use() block,
\* "text" and "html" for the two index streams; item is the item it holds,
\* reads the item whose rows the response body is reading
IdleUser == [pc |-> "idle", kind |-> "use", item |-> NoItem, reads |-> NoItem]

\* PoolContextManager.__enter__: in a handler ("use"), at the first chunk of
\* __stream_root_text ("text", which then reads list_ontologies from the
\* item), and in __stream_root_html when serve_index calls it ("html")
Enter(t, kind) ==
    /\ users[t].pc = "idle"
    /\ Len(pool.q) = 0 => pool.counter < MaxSetups
    /\ pool' = pool_get(pool)
    /\ users' = [users EXCEPT ![t] =
                    [pc |-> "entered", kind |-> kind, item |-> pool'.last.item,
                     reads |-> IF kind = "text" THEN pool'.last.item ELSE NoItem]]
    /\ UNCHANGED PoolFrame

\* PoolContextManager.__exit__ up to the reset of Pool.put: at the end of
\* the with block, for "text" after the last chunk was produced, for "html"
\* at the return statement inside the with block
ExitReset(t) ==
    /\ users[t].pc = "entered"
    /\ pool' = pool_reset(pool, users[t].item)
    /\ users' = [users EXCEPT ![t].pc = "put", ![t].reads = NoItem]
    /\ UNCHANGED PoolFrame

\* the locked section of Pool.put; the body of the HTML index is iterated
\* after it and reads list_ontologies from the item the handler had
ExitStore(t) ==
    /\ users[t].pc = "put"
    /\ pool' = pool_store(pool, users[t].item)
    /\ users' = [users EXCEPT ![t] =
                    IF users[t].kind = "html"
                    THEN [pc |-> "body", kind |-> "html", item |-> NoItem,
                          reads |-> users[t].item]
                    ELSE IdleUser]
    /\ UNCHANGED PoolFrame

\* the last chunk of the HTML index body has been produced
BodyDone(t) ==
    /\ users[t].pc = "body"
    /\ users' = [users EXCEPT ![t] = IdleUser]
    /\ UNCHANGED <<pool, PoolFrame>>

\* pool.teardown() of the server
Teardown ==
    /\ pool' = pool_teardown(pool)
    /\ UNCHANGED <<users, PoolFrame>>

InitPool ==
    /\ fs = [file \in Files |-> IF file = FileH THEN "O1" ELSE "absent"]
    /\ changes = 0
    /\ faults = 0
    /\ conn = [schema |-> TRUE, in_txn |-> FALSE,
               committed |-> EmptyStore, working |-> EmptyStore]
    /\ lock = NoThread
    /\ watching = FALSE
    /\ timer = "none"
    /\ pc = [t \in Threads |-> "idle"]
    /\ indexed = FALSE
    /\ idx = [t \in Threads |-> 1]
    /\ todo = [t \in Threads |-> {}]
    /\ successful = [t \in Threads |-> <<>>]
    /\ failed = [t \in Threads |-> <<>>]
    /\ failures = [t \in Threads |-> <<>>]
    /\ ret = [t \in Threads |-> "none"]
    /\ outcome = [t \in Threads |-> "none"]
    /\ snap = [t \in Threads |-> EmptyStore]
    /\ processed = [t \in Threads |-> <<>>]
    /\ ops = 0
    /\ lastOp = NoOp
    /\ public_domain = NULL
    /\ req = NoRequest
    /\ resp = NoResponse
    /\ fids = {}
    /\ fid_values = {}
    /\ calls = <<>>
    /\ lang_g = {}
    /\ lang_g0 = {}
    /\ preferences = NULL
    /\ restricted = FALSE
    /\ sections = <<>>
    /\ lang_g1 = NULL
    /\ \E size \in PoolSizes : pool = NewPool(size)
    /\ users = [t \in PoolThreads |-> IdleUser]
    /\ deb = [timers |-> <<>>]
    /\ pkl = [heap |-> <<>>]

NextPool ==
    \/ \E t \in PoolThreads, kind \in {"use", "text", "html"} : Enter(t, kind)
    \/ \E t \in PoolThreads : ExitReset(t) \/ ExitStore(t) \/ BodyDone(t)
    \/ Teardown

SpecPool == InitPool /\ [][NextPool]_vars

(***************************************************************************)
(* debounce. A threading.Timer is started, then cancelled or fired: it     *)
(* fires when its wait ends without cancel having been called, and calls   *)
(* the function with the arguments it was created with.                    *)
(***************************************************************************)
\* (args, kwargs) of a call
DebouncedArgs == {<<<<1>>, "x">>, <<<<2>>, "y">>}

\* variant: the pending timer is left alone
timer_cancel_never(tm) == tm

\* timer.cancel(): without effect once the timer has fired
timer_cancel(tm) ==
    IF tm.state = "started" THEN [tm EXCEPT !.state = "cancelled"] ELSE tm

\* the state of decorator: no timer yet, nothing invoked; burst says that
\* every call so far found the timer of the call before it not yet fired
NewDebounce == [timers |-> <<>>, invoked |-> <<>>, burst |-> TRUE]

DebounceFrame == <<fs, changes, faults, conn, ctl, ops, lastOp, public_domain,
                   req, resp, fids, fid_values, calls, lang_g, lang_g0,
                   preferences, restricted, sections, lang_g1, pool, users,
                   pkl>>

\* debounced(*args, **kwargs): under the lock the timer of the call before
\* is cancelled and a new Timer(wait, fn, args, kwargs) is started
Debounced(a) ==
    /\ Len(deb.timers) < MaxDebounced
    /\ LET n == Len(deb.timers)
           cancelled == IF n = 0 THEN deb.timers
                        ELSE [deb.timers EXCEPT ![n] = timer_cancel(deb.timers[n])]
       IN  deb' = [deb EXCEPT
                     !.timers = Append(cancelled, [state |-> "started", args |-> a]),
                     !.burst = deb.burst /\ (n = 0 \/ deb.timers[n].state # "fired")]
    /\ UNCHANGED DebounceFrame

\* Timer.run after wait seconds: fn(*args, **kwargs) unless cancelled
TimerRuns(i) ==
    /\ deb.timers[i].state = "started"
    /\ deb' = [deb EXCEPT !.timers[i].state = "fired",
                          !.invoked = Append(deb.invoked, deb.timers[i].args)]
    /\ UNCHANGED DebounceFrame

InitDebounce ==
    /\ fs = [file \in Files |-> IF file = FileH THEN "O1" ELSE "absent"]
    /\ changes = 0
    /\ faults = 0
    /\ conn = [schema |-> TRUE, in_txn |-> FALSE,
               committed |-> EmptyStore, working |-> EmptyStore]
    /\ lock = NoThread
    /\ watching = FALSE
    /\ timer = "none"
    /\ pc = [t \in Threads |-> "idle"]
    /\ indexed = FALSE
    /\ idx = [t \in Threads |-> 1]
    /\ todo = [t \in Threads |-> {}]
    /\ successful = [t \in Threads |-> <<>>]
    /\ failed = [t \in Threads |-> <<>>]
    /\ failures = [t \in Threads |-> <<>>]
    /\ ret = [t \in Threads |-> "none"]
    /\ outcome = [t \in Threads |-> "none"]
    /\ snap = [t \in Threads |-> EmptyStore]
    /\ processed = [t \in Threads |-> <<>>]
    /\ ops = 0
    /\ lastOp = NoOp
    /\ public_domain = NULL
    /\ req = NoRequest
    /\ resp = NoResponse
    /\ fids = {}
    /\ fid_values = {}
    /\ calls = <<>>
    /\ lang_g = {}
    /\ lang_g0 = {}
    /\ preferences = NULL
    /\ restricted = FALSE
    /\ sections = <<>>
    /\ lang_g1 = NULL
    /\ pool = [q |-> <<>>]
    /\ users = <<>>
    /\ deb = NewDebounce
    /\ pkl = [heap |-> <<>>]

NextDebounce ==
    \/ \E a \in DebouncedArgs : Debounced(a)
    \/ \E i \in 1..Len(deb.timers) : TimerRuns(i)

SpecDebounce == InitDebounce /\ [][NextDebounce]_vars

(***************************************************************************)
(* PickleCachedMeta. Objects live in a heap and are identified by their    *)
(* position in it; the cache holds bytes, not an object.                   *)
(***************************************************************************)
CachedThreads == {"c1", "c2"}

\* the state the n-th __init__ of the cached class builds, n counted from 0
BuiltState(n) == [counter |-> n]

\* the state the first __init__ builds
InitialState == BuiltState(0)

\* pickle.dumps(instance): the bytes of the instance's attributes
pickle_dumps(obj) == <<"counter", obj.counter>>

\* pickle.loads(data): the attributes of a new object
pickle_loads(data) == [counter |-> data[2]]

NewCached == [heap |-> <<>>, instances |-> NULL, lock |-> NoThread,
              pc |-> [t \in CachedThreads |-> "idle"], inits |-> 0,
              returned |-> <<>>]

\* variant: the cache hit hands out the object that was built first
cached_hit_shared(c, t) ==
    [c EXCEPT !.returned = Append(@, [id |-> 1, state |-> c.heap[1]]),
              !.lock = NoThread, !.pc[t] = "idle"]

\* cls in cls._instances: a clone is unpickled and returned, the lock is
\* released
cached_hit(c, t) ==
    LET clone == pickle_loads(c.instances[1])
    IN  [c EXCEPT !.heap = Append(@, clone),
                  !.returned = Append(@, [id |-> Len(c.heap) + 1, state |-> clone]),
                  !.lock = NoThread, !.pc[t] = "idle"]

CachedFrame == <<fs, changes, faults, conn, ctl, ops, lastOp, public_domain,
                 req, resp, fids, fid_values, calls, lang_g, lang_g0,
                 preferences, restricted, sections, lang_g1, pool, users, deb>>

\* cls(...): with cls._lock
Construct(t) ==
    /\ pkl.pc[t] = "idle"
    /\ pkl.lock = NoThread
    /\ Len(pkl.returned) + Cardinality({u \in CachedThreads : pkl.pc[u] # "idle"})
          < MaxConstructed
    /\ pkl' = [pkl EXCEPT !.lock = t, !.pc[t] = "check"]
    /\ UNCHANGED CachedFrame

\* if cls in cls._instances
Lookup(t) ==
    /\ pkl.pc[t] = "check"
    /\ pkl' = IF pkl.instances # NULL THEN cached_hit(pkl, t)
              ELSE [pkl EXCEPT !.pc[t] = "init"]
    /\ UNCHANGED CachedFrame

\* instance = super().__call__(*args, **kwargs): __new__ and __init__
CallInit(t) ==
    /\ pkl.pc[t] = "init"
    /\ pkl' = [pkl EXCEPT !.heap = Append(@, BuiltState(pkl.inits)),
                          !.inits = @ + 1, !.pc[t] = "dump"]
    /\ UNCHANGED CachedFrame

\* cls._instances[cls] = pickle.dumps(instance); return instance
Dump(t) ==
    /\ pkl.pc[t] = "dump"
    /\ LET id == Len(pkl.heap)
       IN  pkl' = [pkl EXCEPT
                     !.instances = Text(pickle_dumps(pkl.heap[id])),
                     !.returned = Append(@, [id |-> id, state |-> pkl.heap[id]]),
                     !.lock = NoThread, !.pc[t] = "idle"]
    /\ UNCHANGED CachedFrame

\* a caller changes an instance it was given
Mutate(id) ==
    /\ \E k \in 1..Len(pkl.returned) : pkl.returned[k].id = id
    /\ pkl.heap[id].counter < MaxCounter
    /\ pkl' = [pkl EXCEPT !.heap[id].counter = @ + 1]
    /\ UNCHANGED CachedFrame

InitCached ==
    /\ fs = [file \in Files |-> IF file = FileH THEN "O1" ELSE "absent"]
    /\ changes = 0
    /\ faults = 0
    /\ conn = [schema |-> TRUE, in_txn |-> FALSE,
               committed |-> EmptyStore, working |-> EmptyStore]
    /\ lock = NoThread
    /\ watching = FALSE
    /\ timer = "none"
    /\ pc = [t \in Threads |-> "idle"]
    /\ indexed = FALSE
    /\ idx = [t \in Threads |-> 1]
    /\ todo = [t \in Threads |-> {}]
    /\ successful = [t \in Threads |-> <<>>]
    /\ failed = [t \in Threads |-> <<>>]
    /\ failures = [t \in Threads |-> <<>>]
    /\ ret = [t \in Threads |-> "none"]
    /\ outcome = [t \in Threads |-> "none"]
    /\ snap = [t \in Threads |-> EmptyStore]
    /\ processed = [t \in Threads |-> <<>>]
    /\ ops = 0
    /\ lastOp = NoOp
    /\ public_domain = NULL
    /\ req = NoRequest
    /\ resp = NoResponse
    /\ fids = {}
    /\ fid_values = {}
    /\ calls = <<>>
    /\ lang_g = {}
    /\ lang_g0 = {}
    /\ preferences = NULL
    /\ restricted = FALSE
    /\ sections = <<>>
    /\ lang_g1 = NULL
    /\ pool = [q |-> <<>>]
    /\ users = <<>>
    /\ deb = [timers |-> <<>>]
    /\ pkl = NewCached

NextCached ==
    \/ \E t \in CachedThreads : Construct(t)
    \/ \E t \in CachedThreads : Lookup(t)
    \/ \E t \in CachedThreads : CallInit(t)
    \/ \E t \in CachedThreads : Dump(t)
    \/ \E id \in 1..Len(pkl.heap) : Mutate(id)

SpecCached == InitCached /\ [][NextCached]_vars

\* the candidate lists get_definienda is called with
UriLists ==
    { << <<"u1">> >>,
      << <<"u1">>, <<"v1">> >>,
      << <<"u2", "Y">>, <<"ext", "Z">>, <<"nowhere">> >>,
      << <<"http", "://", "h", "/", "o">>, <<"https", "://", "h", "/", "o">>,
         <<"http", "://", "h", "/", "o", "/">>, <<"https", "://", "h", "/", "o", "/">> >> }

\* the SORT_KEY the rows of an identifier carry
SortKeyOf(s, identifier) ==
    LET i == CHOOSE i \in 1..Len(s.DEFINIENDA) : s.DEFINIENDA[i].ONTOLOGY_ID = identifier
    IN  s.DEFINIENDA[i].SORT_KEY

\* C13: every result of get_definienda(c1..cn) holds exactly the DEFINIENDA
\* rows whose URI is a candidate, canonical rows before the others and,
\* among rows of equal canonical, greater sort keys first; so when a
\* canonical row matches, the first row is canonical and carries the
\* greatest sort key of the matching canonical rows.
C13_RedirectPreference ==
    \A uris \in UriLists :
        LET s == conn.working
            hits == {i \in 1..Len(s.DEFINIENDA) : s.DEFINIENDA[i].URI \in Range(uris)}
            key(d) == TextRank(SortKeyOf(s, d.ontology_identifier))
        IN  \A res \in GetDefinienda(s, uris) :
                /\ Len(res) = Cardinality(hits)
                /\ \A h \in hits :
                    Cardinality({i \in 1..Len(res) : res[i] = DefiniendumOf(s.DEFINIENDA[h])})
                        = Cardinality({g \in hits : DefiniendumOf(s.DEFINIENDA[g])
                                                      = DefiniendumOf(s.DEFINIENDA[h])})
                /\ \A i, j \in 1..Len(res) :
                    i < j => /\ res[i].canonical \/ ~res[j].canonical
                             /\ res[i].canonical = res[j].canonical
                                    => key(res[i]) >= key(res[j])
                /\ (\E h \in hits : s.DEFINIENDA[h].CANONICAL)
                    => /\ res[1].canonical
                       /\ \A h \in hits :
                            s.DEFINIENDA[h].CANONICAL
                                => key(res[1]) >= TextRank(s.DEFINIENDA[h].SORT_KEY)

C13_Witness ==
    \E uris \in UriLists :
        \E res \in GetDefinienda(conn.working, uris) :
            /\ Len(res) = 4
            /\ res[1].canonical /\ res[2].canonical
            /\ ~res[3].canonical /\ ~res[4].canonical
            /\ res[1].ontology_identifier = "b"
            /\ res[2].ontology_identifier = "a"
            /\ SortKeyOf(conn.working, "b") = "k"
            /\ conn.working.DEFINIENDA[1].ONTOLOGY_ID = "a"
            /\ ~conn.working.DEFINIENDA[2].CANONICAL

\* the prefix the fallback handler looks IRIs up under
PrefixOf(r) == IF public_domain # NULL THEN public_domain ELSE r.hostname

\* the rows of s whose URI is one of the IRIs
Matching(s, iris) == {i \in 1..Len(s.DEFINIENDA) : s.DEFINIENDA[i].URI \in iris}

\* h may be the first row of the rows hits under (canonical DESC, sort_key DESC)
MayBeFirst(s, hits, h) ==
    \A g \in hits :
        \/ s.DEFINIENDA[h].CANONICAL /\ ~s.DEFINIENDA[g].CANONICAL
        \/ /\ s.DEFINIENDA[h].CANONICAL = s.DEFINIENDA[g].CANONICAL
           /\ TextRank(s.DEFINIENDA[h].SORT_KEY) >= TextRank(s.DEFINIENDA[g].SORT_KEY)

\* the response the claim expects when the rows hits match: 404 or 303 to
\* the index without rows, else 303 to the ontology of a first row
FallbackExpected(s, hits, path) ==
    IF hits = {}
        THEN /\ path # <<"/">> => resp.status = 404
             /\ path = <<"/">> => /\ resp.status = 303
                                   /\ resp.location = OntologyRoute
        ELSE /\ resp.status = 303
             /\ \E h \in hits :
                /\ MayBeFirst(s, hits, h)
                /\ resp.location =
                    OntologyRoute
                    \o <<"?", "identifier=", quote(s.DEFINIENDA[h].ONTOLOGY_ID)>>
                    \o (IF s.DEFINIENDA[h].FRAGMENT = NULL THEN <<>>
                        ELSE <<"#", s.DEFINIENDA[h].FRAGMENT[1]>>)

\* C14 (as claimed): for a request whose host is known, the candidates are
\* http/https x (host+p, host+p+"/"), and the response is 404 (p not "/")
\* or 303 to the index (p = "/") when no row matches a candidate, else 303
\* to {ontology_route}?identifier={ontology_id}#{fragment} of the first row.
C14_DereferenceExactPath ==
    (req.route = "fallback" /\ req.fault = "none" /\ PrefixOf(req) # NULL)
        => LET base == <<"://">> \o PrefixOf(req) \o req.path
               iris == {<<"http">> \o base, <<"https">> \o base,
                        <<"http">> \o base \o <<"/">>, <<"https">> \o base \o <<"/">>}
           IN  FallbackExpected(QueryView, Matching(QueryView, iris), req.path)

\* C14 (amended): for a request whose host is known, the candidates are
\* http/https x (host+q, host+q+"/") with q the path p without its trailing
\* slashes; the response is 404 (p not "/") or 303 to the index (p = "/")
\* when no row matches, else 303 to {ontology_route}?identifier={ontology_id}
\* of the first row, followed by #{fragment} when that row has a fragment.
C14_Dereference ==
    (req.route = "fallback" /\ req.fault = "none" /\ PrefixOf(req) # NULL)
        => LET base == <<"://">> \o PrefixOf(req) \o RStrip(req.path)
               iris == {<<"http">> \o base, <<"https">> \o base,
                        <<"http">> \o base \o <<"/">>, <<"https">> \o base \o <<"/">>}
           IN  FallbackExpected(QueryView, Matching(QueryView, iris), req.path)

C14_Witness ==
    /\ req.route = "fallback"
    /\ req.fault = "none"
    /\ req.path = <<"/", "o", "/", "T", "/">>
    /\ public_domain = NULL
    /\ resp.status = 303
    /\ resp.location = <<"/", "ui", "?", "identifier=", "b%20c", "#", "T">>
    /\ Cardinality(Matching(QueryView,
            {<<"https", "://", "h", "/", "o", "/", "T">>})) = 2

\* the MIME types stored for an identifier
StoredTypes(s, identifier) ==
    {s.DATA[i].MIME_TYPE : i \in {j \in 1..Len(s.DATA) : s.DATA[j].ONTOLOGY_ID = identifier}}

\* the request names an indexed ontology, gives no format, and nothing fails
NegotiatedRequest ==
    /\ req.route = "ontology"
    /\ req.identifier # NULL
    /\ req.typ = ""
    /\ req.fault = "none"
    /\ StoredTypes(QueryView, req.identifier[1]) # {}

\* C15: for a request with an identifier and no format, when negotiation
\* against the ontology's MIME types yields none of them, the response is
\* 200 with text/plain if text/plain is stored for the ontology and 406
\* otherwise; a 200 response always carries one of the stored types and
\* the bytes stored for it.
C15_NegotiationFallback ==
    NegotiatedRequest
        => LET offers == StoredTypes(QueryView, req.identifier[1])
               negotiated == negotiate(req.accepts,
                                       GetMimeTypes(QueryView, req.identifier[1]), "")
           IN  /\ negotiated \notin offers
                    => IF "text/plain" \in offers
                          THEN resp.status = 200 /\ resp.media_type = "text/plain"
                          ELSE resp.status = 406
               /\ resp.status \in {200, 406}
               /\ resp.status = 200
                    => /\ resp.media_type \in offers
                       /\ resp.content =
                            GetData(QueryView, req.identifier[1], resp.media_type)

C15_Witness ==
    /\ NegotiatedRequest
    /\ req.accepts = <<[range |-> "application/json", q |-> 10]>>
    /\ req.identifier = Text("b c")
    /\ resp.status = 200
    /\ resp.media_type = "text/plain"
    /\ resp.content = Text("nt3")
    /\ resp.disposition = <<"inline", "b c", ".", "nt">>

\* C16: for a request with an identifier and no format whose Accept header
\* names exactly one media type m (with a q above 0), if m is stored for
\* the ontology the response has status 200 and Content-Type m.
C16_SingleAccept ==
    (/\ NegotiatedRequest
     /\ Len(req.accepts) = 1
     /\ req.accepts[1].q > 0
     /\ req.accepts[1].range \in StoredTypes(QueryView, req.identifier[1]))
        => /\ resp.status = 200
           /\ resp.media_type = req.accepts[1].range

C16_Witness ==
    /\ NegotiatedRequest
    /\ req.accepts = <<[range |-> "text/turtle", q |-> 10]>>
    /\ StoredTypes(QueryView, req.identifier[1])
            = {"text/html", "text/plain", "text/turtle"}
    /\ resp.status = 200
    /\ resp.media_type = "text/turtle"
    /\ resp.content = Text("ttl3")

\* C17 (as claimed): whatever raises while the response to a request to the
\* ontology route or the fallback route is produced, the pool or a query
\* during the iteration of a streamed index body included, no exception
\* reaches the server: it is answered by a 500 response.
C17_NoExceptionEscapes ==
    req.route \in {"ontology", "fallback"} => ~resp.escaped

\* C19: within one RenderContext two fragment calls returned the same
\* identifier exactly when they were made with the same IRI and the same
\* group.
C19_FragmentUnique ==
    \A i, j \in 1..Len(calls) :
        (calls[i].fid = calls[j].fid)
            <=> (calls[i].iri = calls[j].iri /\ calls[i].group = calls[j].group)

C19_Witness ==
    /\ Len(calls) = 3
    /\ calls[1] = [iri |-> IriSectionThing, group |-> "", fid |-> <<"section", "_", "Thing">>]
    /\ calls[2] = [iri |-> IriThingA, group |-> "section",
                   fid |-> <<"section", "_", "Thing", "_", "2">>]
    /\ calls[3] = calls[2]

\* the language the pair (s, p) of the graph keeps: the first preference
\* present among the tags of its literals, else the smallest of these tags
TagsOf(graph, s, p) ==
    {o.language[1] : o \in {q \in objects(graph, s, p) :
                                q.literal /\ q.language # NULL}}
KeptTag(graph, s, p, prefs) ==
    LET tags == TagsOf(graph, s, p)
        present == {i \in 1..Len(prefs) : prefs[i] \in tags}
    IN  IF present # {}
        THEN prefs[CHOOSE i \in present : \A j \in present : i <= j]
        ELSE CHOOSE l \in tags : \A m \in tags : TagRank(l) <= TagRank(m)

\* C20: after restrict_languages a language-tagged literal of the graph is
\* retained exactly when its tag is the first preference present among the
\* tags of its (subject, predicate), or the smallest tag when no preference
\* is present, and every literal without a language tag is retained.
C20_UntaggedRetained ==
    (restricted /\ lang_g1 = NULL) =>
        \A t \in lang_g0 :
            t[3].literal =>
                IF t[3].language = NULL THEN t \in lang_g
                ELSE (t \in lang_g)
                        <=> (t[3].language[1]
                                = KeptTag(lang_g0, t[1], t[2], preferences))

\* the elements of the HTML stored for the ontology of a DEFINIENDA row
\* whose id is the FRAGMENT of the row
ElementsWithFragment(s, r) ==
    LET html == GetData(s, r.ONTOLOGY_ID, "text/html")[1]
    IN  {j \in 1..Len(html) : html[j].id = r.FRAGMENT}

\* C18: for every DEFINIENDA row with a FRAGMENT and CANONICAL = true the
\* HTML stored for its ontology has exactly one element whose id is the
\* FRAGMENT, and that element is the definition block of the row's URI.
C18_FragmentConsistency ==
    \A i \in 1..Len(conn.committed.DEFINIENDA) :
        LET r == conn.committed.DEFINIENDA[i]
            html == GetData(conn.committed, r.ONTOLOGY_ID, "text/html")[1]
            hits == ElementsWithFragment(conn.committed, r)
        IN  (r.FRAGMENT # NULL /\ r.CANONICAL) =>
                /\ Cardinality(hits) = 1
                /\ \A j \in hits : /\ html[j].tag = "div"
                                   /\ html[j].child = "table"
                                   /\ html[j].code = Text(r.URI)

\* C21: applying restrict_languages to a graph a second time with the same
\* preferences leaves the set of triples as the first application made it.
C21_RestrictIdempotent == lang_g1 # NULL => lang_g = lang_g1[1]

C21_Witness ==
    /\ lang_g1 # NULL
    /\ lang_g = lang_g1[1]
    /\ lang_g # lang_g0
    /\ \E t \in lang_g : t[3].literal /\ t[3].language # NULL
    /\ \E t \in lang_g0 \ lang_g : t[3].language = NULL

\* the items of a deque and the threads that hold an item
ItemsOf(q) == {q[i] : i \in 1..Len(q)}
Holders(item) == {t \in PoolThreads : users[t].item = item}

\* C22: when Pool.teardown has returned the pool holds no idle item and the
\* teardown callback was called exactly once on every item that was idle
\* when it started.
C22_TeardownDrains ==
    pool.last.op = "teardown" =>
        /\ pool.q = <<>>
        /\ \A item \in ItemsOf(pool.last.before) : pool.torn[item] = 1

\* C25: no item is held by two threads, no item is both idle and held, and
\* Pool.get calls setup exactly when it finds no idle item and otherwise
\* returns the oldest idle item.
C25_ExclusiveUse ==
    /\ \A item \in 1..pool.counter : Cardinality(Holders(item)) <= 1
    /\ \A item \in ItemsOf(pool.q) : Holders(item) = {}
    /\ pool.last.op = "get" =>
          IF pool.last.before = <<>>
          THEN pool.last.made /\ pool.last.item = pool.counter /\ pool.q = <<>>
          ELSE /\ ~pool.last.made
               /\ pool.last.item = Head(pool.last.before)
               /\ pool.q = Tail(pool.last.before)

C25_Witness ==
    /\ pool.last.op = "get"
    /\ pool.last.before # <<>>
    /\ \E t, u \in PoolThreads :
          /\ users[t].item = pool.last.item
          /\ users[u].item \notin {NoItem, pool.last.item}

\* C26: an item whose rows the body of an index response is reading is held
\* by the thread producing that body: it is back in the pool only after
\* the last chunk.
C26_StreamHoldsConnection ==
    \A t \in PoolThreads :
        users[t].reads # NoItem => users[t].item = users[t].reads

\* C27: Pool.put tears the item down and does not store it when the pool
\* holds size idle items and otherwise appends it, reset; the pool never
\* holds more than size idle items, and every item created is exactly one
\* of held by a user, idle in the pool, torn down.
C27_BoundedRelease ==
    /\ Len(pool.q) <= pool.maxsize
    /\ pool.last.op = "put" =>
          IF Len(pool.last.before) = pool.maxsize
          THEN pool.q = pool.last.before /\ pool.torn[pool.last.item] = 1
          ELSE /\ pool.q = Append(pool.last.before, pool.last.item)
               /\ pool.last.item \in pool.reset
               /\ pool.torn[pool.last.item] = 0
    /\ \A item \in 1..pool.counter :
          Cardinality(Holders(item))
            + Cardinality({i \in 1..Len(pool.q) : pool.q[i] = item})
            + pool.torn[item] = 1

C27_Witness ==
    /\ pool.last.op = "put"
    /\ pool.maxsize = 1
    /\ Len(pool.last.before) = 1
    /\ pool.torn[pool.last.item] = 1
    /\ pool.q = pool.last.before

\* the timers that were started and neither cancelled nor fired
Pending == {i \in 1..Len(deb.timers) : deb.timers[i].state = "started"}

\* C23: at most one started, un-cancelled timer is pending; and as long as
\* every call arrived before the timer of the call before it fired, the
\* function is invoked at most once, only by the timer of the last call and
\* so with its arguments, and exactly once when no timer is pending any more.
C23_DebounceCoalesces ==
    /\ Cardinality(Pending) <= 1
    /\ (deb.burst /\ deb.timers # <<>>) =>
          LET n == Len(deb.timers)
          IN  /\ Len(deb.invoked) <= 1
              /\ deb.invoked # <<>> =>
                    /\ deb.timers[n].state = "fired"
                    /\ deb.invoked[1] = deb.timers[n].args
              /\ Pending = {} => Len(deb.invoked) = 1

C23_Witness ==
    /\ deb.burst
    /\ Len(deb.timers) = 3
    /\ deb.timers[1].args # deb.timers[3].args
    /\ deb.invoked = <<deb.timers[3].args>>
    /\ Pending = {}

\* C24: __init__ of a PickleCachedMeta class runs exactly once however the
\* constructions of several threads interleave; every construction returns
\* an object that none before it returned, in the state the first __init__
\* built, whatever was done to the instances returned earlier.
C24_MemoizedConstruction ==
    /\ pkl.inits <= 1
    /\ pkl.returned # <<>> => pkl.inits = 1
    /\ \A j, k \in 1..Len(pkl.returned) :
          j # k => pkl.returned[j].id # pkl.returned[k].id
    /\ \A k \in 1..Len(pkl.returned) : pkl.returned[k].state = InitialState

C24_Witness ==
    /\ Len(pkl.returned) = 3
    /\ pkl.heap[pkl.returned[1].id].counter = MaxCounter
    /\ pkl.heap[pkl.returned[2].id].counter = 1
    /\ pkl.returned[3].state = InitialState
    /\ pkl.inits = 1

\* the rows of a table that belong to one ontology, in rowid order
RowsOfId(table, identifier) ==
    SelectSeq(table, LAMBDA r : r.ONTOLOGY_ID = identifier)

\* both tables hold the same rows for the ontology before and after
SameRowsOfId(before, after, identifier) ==
    /\ RowsOfId(after.DEFINIENDA, identifier) = RowsOfId(before.DEFINIENDA, identifier)
    /\ RowsOfId(after.DATA, identifier) = RowsOfId(before.DATA, identifier)

\* C29: after remove(id) no DEFINIENDA row and no DATA row has ONTOLOGY_ID id
\* and the rows of every other ONTOLOGY_ID are the ones from before; after
\* upsert(id, O), also one that raised, the rows of every other ONTOLOGY_ID
\* are the ones from before.
C29_RemoveExact ==
    /\ lastOp.kind = "remove" =>
          /\ RowsOfId(conn.working.DEFINIENDA, lastOp.id) = <<>>
          /\ RowsOfId(conn.working.DATA, lastOp.id) = <<>>
          /\ \A other \in Ids \ {lastOp.id} :
                SameRowsOfId(lastOp.pre, conn.working, other)
    /\ lastOp.kind \in {"upsert", "upsert_raised"} =>
          \A other \in Ids \ {lastOp.id} :
              SameRowsOfId(lastOp.pre, conn.working, other)

C29_Witness ==
    /\ lastOp.kind = "remove"
    /\ \A identifier \in Ids :
          /\ RowsOfId(lastOp.pre.DEFINIENDA, identifier) # <<>>
          /\ RowsOfId(lastOp.pre.DATA, identifier) # <<>>
    /\ conn.working.DATA # <<>>

\* the positions of the chunks of a body that are equal to chunk
ChunkPositions(body, chunk) == {k \in 1..Len(body) : body[k] = chunk}

\* the positions of the chunks of a body that open the block of an ontology
BlockStarts(body) ==
    {k \in 1..Len(body) : body[k] # <<>> /\ body[k][1] = "## Ontology "}

\* C30: the body of the text/plain index is the text header once, as the
\* first chunk, then one block for each ontology of the index, then the
\* text footer once, as the last chunk, for any number of ontologies
\* including none.
C30_TextIndexShape ==
    (resp.stream = "done" /\ resp.media_type = "text/plain") =>
        LET body == resp.content[1]
        IN  /\ ChunkPositions(body, IndexTxtHeader) = {1}
            /\ Cardinality(BlockStarts(body)) = Cardinality(ListedIds(QueryView))
            /\ ChunkPositions(body, IndexTxtFooter) = {Len(body)}

\* a re-index on thread t has reached its commit or rollback
Settled(t) == pc[t] = "unlock" /\ outcome[t] \in {"commit", "rollback"}

\* C28: while the controller is watching, the timer an event left pending
\* expires and starts a re-index, and every re-index that was started, also
\* one that finds the writer lock held, runs to its commit or rollback.
C28_EventuallyIndexed ==
    /\ (watching /\ timer = "pending") ~> (timer = "none")
    /\ \A t \in Timers : (pc[t] = "lock") ~> Settled(t)

====
